---- MODULE Spec2Model ----
(***************************************************************************)
(* Sponsor session and admin-token core of the sponsor portal:             *)
(*   src/src/lib/auth.ts      session helpers, admin token verification    *)
(*   src/src/app/page.tsx     sponsor login route (verifySponsor, POST)    *)
(*   src/unnamed/part_000     admin update-submission route                *)
(*   src/unnamed/part_001     database layer (sponsorships, updates)       *)
(* The sponsorship store is one table: the login route and the session     *)
(* helpers query the same sponsorship records.                             *)
(***************************************************************************)
EXTENDS Integers, Sequences, FiniteSets, TLC

\* ------------------------------------------------------------------ bounds
\* Last day the clock is advanced to.
MaxTime == 61
\* Longest token string (in characters) drawn for the admin-token inputs.
MaxTokenLen == 2
\* Most update rows the updates table is grown to.
MaxUpdates == 2
\* Most store clients constructed in one process.
MaxClients == 3

\* -------------------------------------------------------- program constants
\* expires.setDate(expires.getDate() + 30)
SESSION_DAYS == 30

\* ------------------------------------------------------------ value domains
RowIds == {"rec1", "rec2"}
Codes == {"BAN-2025-104", "BAN-2025-999"}
Emails == {"a@x.com", "b@x.com"}
AuthStatuses == {"Active", "Inactive", "Suspended"}
\* JavaScript undefined (a property that is not there) and the time value of
\* an Invalid Date (NaN): neither is a sponsor code or a day.
Undefined == "undefined"
InvalidDate == -1

VARIABLES
    sponsorships,   \* the sponsorships table: row id -> row
    updates,        \* the updates table: sequence of rows, in insertion order
    cookie,         \* the browser's sponsor_session cookie (raw value)
    now,            \* the clock, in days
    loggedIn,       \* history: the login route has issued a session cookie
    adminEnv,       \* process.env.ADMIN_API_TOKEN
    adminReq,       \* the admin request under consideration (headers, form)
    requests,       \* the request-update calls in flight: call -> its position
    supabaseClient, \* the module's singleton reference, and the clients constructed
    refused,        \* history: the cookies a tracked verifySession has refused
    last            \* the operation that produced this state, and its result

vars == <<sponsorships, updates, cookie, now, loggedIn, adminEnv, adminReq, requests,
          supabaseClient, refused, last>>

\* ------------------------------------------------------------------ results
Null == [tag |-> "null"]
Throw(e) == [tag |-> "throw", error |-> e]
Bool(b) == [tag |-> "bool", value |-> b]
Record(r) == [tag |-> "record", record |-> r]
Session(s) == [tag |-> "session", session |-> s]
Response(status, error) == [tag |-> "response", status |-> status, error |-> error]

\* ---------------------------------------------------------- cookie values
\* What cookieStore.get(...) can hold: nothing, text that is not JSON, the JSON
\* text null, a JSON primitive (a number, a string), or a JSON object with the
\* properties email, sponsorCode and expires (each possibly missing/unparseable).
NoCookie == [kind |-> "absent", email |-> Undefined, sponsorCode |-> Undefined, expires |-> InvalidDate]
NotJson == [kind |-> "notjson", email |-> Undefined, sponsorCode |-> Undefined, expires |-> InvalidDate]
JsonNull == [kind |-> "jsonnull", email |-> Undefined, sponsorCode |-> Undefined, expires |-> InvalidDate]
JsonPrimitive == [kind |-> "jsonprim", email |-> Undefined, sponsorCode |-> Undefined, expires |-> InvalidDate]
JsonObject(email, code, expires) ==
    [kind |-> "object", email |-> email, sponsorCode |-> code, expires |-> expires]

\* new Date(a) < new Date(b) on time values: false when either is NaN.
DateBefore(a, b) == a # InvalidDate /\ b # InvalidDate /\ a < b

\* ------------------------------------------------------ database layer
\* Mutant: the two request-tracking columns are read into each other's field.
toAirtableSponsorshipRecord_SwapsTracking(id, row) ==
    [id |-> id,
     SponsorCode |-> row.sponsor_code,
     SponsorEmail |-> row.sponsor_email,
     ChildID |-> row.child_id,
     AuthStatus |-> row.auth_status,
     VisibleToSponsor |-> row.visible_to_sponsor,
     LastRequestAt |-> row.next_request_eligible_at,
     NextRequestEligibleAt |-> row.last_request_at]

\* A null timestamp becomes undefined: either way no time.
toAirtableSponsorshipRecord(id, row) ==
    [id |-> id,
     SponsorCode |-> row.sponsor_code,
     SponsorEmail |-> row.sponsor_email,
     ChildID |-> row.child_id,
     AuthStatus |-> row.auth_status,
     VisibleToSponsor |-> row.visible_to_sponsor,
     LastRequestAt |-> row.last_request_at,
     NextRequestEligibleAt |-> row.next_request_eligible_at]

\* Mutant: the query without .eq('visible_to_sponsor', true).
MatchesByCode_NoVisibility(row, code) ==
    /\ row.sponsor_code = code
    /\ row.auth_status = "Active"

\* .eq('sponsor_code', code).eq('auth_status', 'Active').eq('visible_to_sponsor', true)
MatchesByCode(row, code) ==
    /\ row.sponsor_code = code
    /\ row.auth_status = "Active"
    /\ row.visible_to_sponsor = TRUE

\* Mutant: a store error is answered like no row.
findSponsorshipByCode_ErrorIsNull(store, code, outcome) ==
    LET ids == {i \in DOMAIN store : MatchesByCode(store[i], code)}
    IN IF outcome # "ok" \/ ids = {} THEN {Null}
       ELSE {Record(toAirtableSponsorshipRecord(i, store[i])) : i \in ids}

\* The set of results the call can give: .limit(1).single() yields any one
\* matching row; no row is PGRST116 and gives null; a store error is thrown
\* as DatabaseError.
findSponsorshipByCode(store, code, outcome) ==
    IF outcome # "ok" THEN {Throw("DatabaseError")}
    ELSE LET ids == {i \in DOMAIN store : MatchesByCode(store[i], code)}
         IN IF ids = {} THEN {Null}
            ELSE {Record(toAirtableSponsorshipRecord(i, store[i])) : i \in ids}

\* --------------------------------------------------------- session helpers
\* Mutant: the expiry is not looked at.
getSession_IgnoresExpiry(c, t) ==
    IF c.kind \in {"absent", "notjson", "jsonnull"} THEN Null ELSE Session(c)

getSession(c, t) ==
    IF c.kind = "absent" THEN Null
    ELSE IF c.kind = "notjson" THEN Null       \* JSON.parse throws
    ELSE IF c.kind = "jsonnull" THEN Null      \* session.expires throws
    ELSE IF DateBefore(c.expires, t) THEN Null
    ELSE Session(c)

verifySession(c, t, store, outcome) ==
    LET session == getSession(c, t)
    IN IF session.tag # "session" THEN {Null}
       ELSE findSponsorshipByCode(store, session.session.sponsorCode, outcome)

\* Mutant: every failure of verifySession reported as AuthenticationError.
requireAuth_CatchAll(c, t, store, outcome) ==
    {IF r.tag \in {"null", "throw"} THEN Throw("AuthenticationError") ELSE r :
        r \in verifySession(c, t, store, outcome)}

requireAuth(c, t, store, outcome) ==
    {IF r.tag = "null" THEN Throw("AuthenticationError") ELSE r :
        r \in verifySession(c, t, store, outcome)}

\* Mutant: any session is accepted for any sponsor code.
verifySessionForCode_NoCodeCheck(c, t, sponsorCode) ==
    LET session == getSession(c, t)
    IN IF session.tag # "session" THEN Bool(FALSE) ELSE Bool(TRUE)

verifySessionForCode(c, t, sponsorCode) ==
    LET session == getSession(c, t)
    IN IF session.tag # "session" THEN Bool(FALSE)
       ELSE IF session.session.sponsorCode # sponsorCode THEN Bool(FALSE)
       ELSE Bool(TRUE)

\* Mutant: the query without .eq('auth_status', AUTH_STATUS.ACTIVE).
MatchesByCredentials_NoStatus(row, email, code) ==
    /\ row.sponsor_email = email
    /\ row.sponsor_code = code
    /\ row.visible_to_sponsor = TRUE

\* .eq('sponsor_email', email).eq('sponsor_code', code)
\* .eq('auth_status', 'Active').eq('visible_to_sponsor', true)
MatchesByCredentials(row, email, code) ==
    /\ row.sponsor_email = email
    /\ row.sponsor_code = code
    /\ row.auth_status = "Active"
    /\ row.visible_to_sponsor = TRUE

\* The outcome "unfiltered" is a store that answers with a row whatever the
\* query's predicate: the function returns the row it is given.
findSponsorshipByCredentials(store, email, code, outcome) ==
    IF outcome = "unfiltered"
        THEN {Record(toAirtableSponsorshipRecord(i, store[i])) : i \in DOMAIN store}
    ELSE IF outcome # "ok" THEN {Throw("DatabaseError")}
    ELSE LET ids == {i \in DOMAIN store : MatchesByCredentials(store[i], email, code)}
         IN IF ids = {} THEN {Null}
            ELSE {Record(toAirtableSponsorshipRecord(i, store[i])) : i \in ids}

\* Column names for Airtable-style field names: FIELD_MAP, else the
\* camel-case to snake-case transform.
mapFieldsToColumns(field) ==
    CASE field = "VisibleToSponsor" -> "visible_to_sponsor"
      [] field = "Status" -> "status"
      [] field = "PublishedAt" -> "published_at"
      [] field = "AuthStatus" -> "auth_status"
      [] OTHER -> field

\* ------------------------------------------------------------- login route
\* AND({SponsorEmail}="..",{SponsorCode}="..",{AuthStatus}="Active",{VisibleToSponsor}=1)
FormulaMatches(row, email, code) ==
    /\ row.sponsor_email = email
    /\ row.sponsor_code = code
    /\ row.auth_status = "Active"
    /\ row.visible_to_sponsor = TRUE

\* Mutant: the SponsorData with its email and sponsor code in each other's place.
SponsorDataOf_SwapsFields(row) ==
    IF row.auth_status # "Active" THEN Null
    ELSE IF row.visible_to_sponsor # TRUE THEN Null
    ELSE Record([sponsorCode |-> row.sponsor_email,
                 email |-> row.sponsor_code,
                 childID |-> row.child_id])

\* The double check of the returned record's fields, then the SponsorData.
SponsorDataOf(row) ==
    IF row.auth_status # "Active" THEN Null
    ELSE IF row.visible_to_sponsor # TRUE THEN Null
    ELSE Record([sponsorCode |-> row.sponsor_code,
                 email |-> row.sponsor_email,
                 childID |-> row.child_id])

\* Mutant: a sponsorship that is not Active is reported with an error of its own.
verifySponsor_ReportsInactive(store, email, code, outcome) ==
    IF outcome # "ok" THEN {Throw("Error")}
    ELSE LET held == {i \in DOMAIN store : /\ store[i].sponsor_email = email
                                           /\ store[i].sponsor_code = code}
             ids == {i \in held : FormulaMatches(store[i], email, code)}
         IN IF \E i \in held : store[i].auth_status # "Active" THEN {Throw("Error")}
            ELSE IF ids = {} THEN {Null}
            ELSE {SponsorDataOf(store[i]) : i \in ids}

\* The set of results: records[0] is any one record the formula matches (any
\* record at all when the store answers "unfiltered").
verifySponsor(store, email, code, outcome) ==
    IF outcome = "unfiltered" THEN {SponsorDataOf(store[i]) : i \in DOMAIN store}
    ELSE IF outcome # "ok" THEN {Throw("Error")}
    ELSE LET ids == {i \in DOMAIN store : FormulaMatches(store[i], email, code)}
         IN IF ids = {} THEN {Null}
            ELSE {SponsorDataOf(store[i]) : i \in ids}

\* Request bodies of the login route: text that is not JSON, or an object
\* with an email and a sponsor code as typed by the user.
RawEmails == Emails \cup {" A@X.COM ", "not-an-email"}
RawCodes == Codes \cup {" BAN-2025-104 ", "BAN 2025;104"}
NotJsonBody == [kind |-> "notjson", email |-> Undefined, sponsorCode |-> Undefined]
LoginBodies ==
    {NotJsonBody} \cup
    {[kind |-> "object", email |-> e, sponsorCode |-> c] : e \in RawEmails, c \in RawCodes}

Success(data) == [success |-> TRUE, data |-> data]
Failure(error) == [success |-> FALSE, error |-> error]

\* Trims and lower-cases; rejects what is no address.
validateEmail(raw) ==
    IF raw \in Emails THEN Success(raw)
    ELSE IF raw = " A@X.COM " THEN Success("a@x.com")
    ELSE Failure("Invalid email")

\* A well-formed sponsor code that no sponsorship holds.
UnissuedCode == "BAN-2025-500"

\* Trims; rejects what is not letters, digits and hyphens.
validateSponsorCode(raw) ==
    IF raw \in Codes \cup {UnissuedCode} THEN Success(raw)
    ELSE IF raw = " BAN-2025-104 " THEN Success("BAN-2025-104")
    ELSE Failure("Invalid sponsor code")

StoreOutcomes == {"ok", "error"}

\* ------------------------------------------------------------- rate limiter
\* What check...RateLimit(request) returns: null, or an error object whose
\* retryAfter is a number of seconds or is not there.
RetryAfterUndefined == -1
NotLimited == [limited |-> FALSE, retryAfter |-> RetryAfterUndefined]
RateLimitResults ==
    {NotLimited} \cup {[limited |-> TRUE, retryAfter |-> r] : r \in {RetryAfterUndefined, 0, 42}}
\* The limiter's answers with no retryAfter: the session specifications draw from these.
PlainLimits == {l \in RateLimitResults : l.retryAfter = RetryAfterUndefined}

\* 'Retry-After': rateLimitError.retryAfter?.toString() || '60'
RetryAfterHeader(limit) ==
    IF limit.retryAfter = RetryAfterUndefined THEN 60 ELSE limit.retryAfter

\* NextResponse.json({error: TOO_MANY_REQUESTS}, {status: 429, headers: {'Retry-After': ..}})
RateLimited(limit) ==
    [tag |-> "response", status |-> 429, error |-> "TOO_MANY_REQUESTS",
     retryAfter |-> RetryAfterHeader(limit)]

\* Mutant: each validator's value is passed in the other's place.
LoginCredentials_Swapped(emailValidation, codeValidation) ==
    [email |-> codeValidation.data, sponsorCode |-> emailValidation.data]

\* const email = emailValidation.data!; const sponsorCode = codeValidation.data!
LoginCredentials(emailValidation, codeValidation) ==
    [email |-> emailValidation.data, sponsorCode |-> codeValidation.data]

\* The response of the login route, the cookie it leaves, what verifySponsor
\* returned ("skipped" when it was not called) and the calls the route made, in
\* order, for each way the route can run: a set of
\* <<response, cookie, sponsor, calls>>.
Skipped == [tag |-> "skipped"]
LoginOutcomes(store, c, t, limit, body, outcome) ==
    IF limit.limited
        THEN {<<RateLimited(limit), c, Skipped, <<"checkLoginRateLimit">> >>}
    ELSE IF body.kind = "notjson"
        THEN {<<Response(500, "raw"), c, Skipped, <<"checkLoginRateLimit", "request.json">> >>}
    ELSE LET emailValidation == validateEmail(body.email)
             codeValidation == validateSponsorCode(body.sponsorCode)
         IN IF ~emailValidation.success
                THEN {<<Response(400, emailValidation.error), c, Skipped,
                        <<"checkLoginRateLimit", "request.json", "validateEmail">> >>}
            ELSE IF ~codeValidation.success
                THEN {<<Response(400, codeValidation.error), c, Skipped,
                        <<"checkLoginRateLimit", "request.json", "validateEmail",
                          "validateSponsorCode">> >>}
            ELSE LET calls == <<"checkLoginRateLimit", "request.json", "validateEmail",
                                "validateSponsorCode", "verifySponsor">>
                 IN {IF sponsor.tag = "throw"
                         THEN <<Response(500, "raw"), c, sponsor, calls>>
                     ELSE IF sponsor.tag = "null"
                         THEN <<Response(401, "Invalid email or sponsor code, or sponsorship is not active"),
                                c, sponsor, calls>>
                     ELSE <<Response(200, "none"),
                            JsonObject(sponsor.record.email, sponsor.record.sponsorCode,
                                       t + SESSION_DAYS),
                            sponsor, Append(calls, "cookieStore.set")>> :
                     sponsor \in
                         LET credentials == LoginCredentials(emailValidation, codeValidation)
                         IN verifySponsor(store, credentials.email,
                                          credentials.sponsorCode, outcome)}

\* ------------------------------------------------------------ admin tokens
\* Strings are sequences of characters (code points): "a" and "e-acute", one
\* and two bytes long in UTF-8.
Chars == {97, 233}
Strings == UNION {[1..n -> Chars] : n \in 0..MaxTokenLen}
\* The secrets the deployment is configured with.
Secrets == {<<97>>, <<97, 233>>}

\* Buffer.from(s, 'utf8')
Utf8Char(c) == IF c < 128 THEN <<c>> ELSE <<192 + (c \div 64), 128 + (c % 64)>>
RECURSIVE Utf8(_)
Utf8(s) == IF s = <<>> THEN <<>> ELSE Utf8Char(Head(s)) \o Utf8(Tail(s))

\* crypto.timingSafeEqual: throws on buffers of different length.
timingSafeEqual(x, y) ==
    IF Len(x) # Len(y) THEN Throw("RangeError")
    ELSE Bool(\A i \in 1..Len(x) : x[i] = y[i])

\* Mutant: on a length mismatch the dummy comparison's result is returned.
timingSafeCompare_ReturnsDummy(a, b) ==
    LET bufferA == Utf8(a)
        bufferB == Utf8(b)
    IN IF Len(bufferA) # Len(bufferB)
       THEN timingSafeEqual(bufferA, bufferA).value
       ELSE LET r == timingSafeEqual(bufferA, bufferB)
            IN IF r.tag = "throw" THEN FALSE ELSE r.value

\* try { ... } catch { return false }
timingSafeCompare(a, b) ==
    LET bufferA == Utf8(a)
        bufferB == Utf8(b)
    IN IF Len(bufferA) # Len(bufferB)
       THEN FALSE      \* after the dummy timingSafeEqual(bufferA, bufferA)
       ELSE LET r == timingSafeEqual(bufferA, bufferB)
            IN IF r.tag = "throw" THEN FALSE ELSE r.value

\* A header or form value: absent (null), or a string.
Absent == [present |-> FALSE, value |-> <<>>]
Given(v) == [present |-> TRUE, value |-> v]
\* JavaScript truthiness of string | null | undefined.
Truthy(h) == h.present /\ h.value # <<>>

\* An Authorization header: absent, or "Bearer <value>", or "<value>" alone.
NoAuthorization == [present |-> FALSE, bearer |-> FALSE, value |-> <<>>]
Authorization(bearer, v) == [present |-> TRUE, bearer |-> bearer, value |-> v]
\* request.headers.get('Authorization')?.replace(/^Bearer\s+/i, '')
StripBearer(h) == IF h.present THEN Given(h.value) ELSE Absent

UnsetEnv == [present |-> FALSE, value |-> <<>>]

\* Mutant: only the X-Admin-Token header is read.
verifyAdminToken_NoBearer(env, req) ==
    IF ~Truthy(env) THEN FALSE
    ELSE IF ~Truthy(req.xAdminToken) THEN FALSE
    ELSE timingSafeCompare(req.xAdminToken.value, env.value)

verifyAdminToken(env, req) ==
    IF ~Truthy(env) THEN FALSE
    ELSE LET requestToken ==
                 IF Truthy(req.xAdminToken) THEN req.xAdminToken
                 ELSE IF Truthy(StripBearer(req.authorization))
                     THEN StripBearer(req.authorization)
                 ELSE Absent
         IN IF ~Truthy(requestToken) THEN FALSE
            ELSE timingSafeCompare(requestToken.value, env.value)

\* Mutant: authentication is waived when no secret is configured.
verifyFormToken_FailOpen(env, token) ==
    IF ~Truthy(env) THEN TRUE
    ELSE IF ~Truthy(token) THEN FALSE
    ELSE timingSafeCompare(token.value, env.value)

verifyFormToken(env, token) ==
    IF ~Truthy(token) THEN FALSE
    ELSE IF ~Truthy(env) THEN FALSE
    ELSE LET tokenBuffer == Utf8(token.value)
             expectedBuffer == Utf8(env.value)
         IN IF Len(tokenBuffer) # Len(expectedBuffer)
            THEN FALSE     \* after the dummy timingSafeEqual(tokenBuffer, tokenBuffer)
            ELSE LET r == timingSafeEqual(tokenBuffer, expectedBuffer)
                 IN IF r.tag = "throw" THEN FALSE ELSE r.value

AdminRequests ==
    {[xAdminToken |-> x, authorization |-> a, adminPassword |-> f] :
        x \in {Absent} \cup {Given(v) : v \in Strings},
        a \in {NoAuthorization} \cup {Authorization(FALSE, v) : v \in Strings}
              \cup {Authorization(TRUE, v) : v \in Strings \ {<<>>}},
        f \in {Absent} \cup {Given(v) : v \in Strings}}
AdminEnvs == {UnsetEnv, Given(<<>>)} \cup {Given(v) : v \in Secrets}
NoAdminRequest ==
    [xAdminToken |-> Absent, authorization |-> NoAuthorization, adminPassword |-> Absent]

\* ------------------------------------------------------------ store client
\* let supabaseClient: SupabaseClient | null = null. Clients are numbered in
\* the order createClient made them; ref is the module's reference (NoClient
\* for null), made counts the createClient calls, built those of them made by
\* getSupabaseClient.
NoClient == 0
NotConstructed == [ref |-> NoClient, made |-> 0, built |-> 0]

\* Mutant: a client is constructed and stored on every call.
getSupabaseClient_AlwaysConstructs(client, configOk) ==
    IF ~configOk THEN <<Throw("Error"), client>>
    ELSE <<[tag |-> "client", id |-> client.made + 1],
           [ref |-> client.made + 1, made |-> client.made + 1, built |-> client.built + 1]>>

\* <<what the call returns, the module state it leaves>>; getSupabaseConfig()
\* throws when the configuration is missing. The function has no await: a
\* call runs to its end before another starts.
getSupabaseClient(client, configOk) ==
    IF client.ref = NoClient
    THEN IF ~configOk THEN <<Throw("Error"), client>>
         ELSE <<[tag |-> "client", id |-> client.made + 1],
                [ref |-> client.made + 1, made |-> client.made + 1,
                 built |-> client.built + 1]>>
    ELSE <<[tag |-> "client", id |-> client.ref], client>>

\* A fresh client, not stored.
createSupabaseClient(client, configOk) ==
    IF ~configOk THEN <<Throw("Error"), client>>
    ELSE <<[tag |-> "client", id |-> client.made + 1], [client EXCEPT !.made = @ + 1]>>

\* -------------------------------------------------- sponsor session: actions
Did(op, arg, res) == [op |-> op, arg |-> arg, res |-> res]

\* Cookie values a browser can be made to send: the cookie is the client's.
FarFuture == MaxTime + SESSION_DAYS
BrowserCookies ==
    {NotJson, JsonNull, JsonPrimitive} \cup
    {JsonObject("a@x.com", c, x) :
        c \in Codes \cup {Undefined}, x \in {InvalidDate, 0, FarFuture}}

AdminUnchanged == UNCHANGED <<updates, adminEnv, adminReq, requests, supabaseClient, refused>>

\* POST /api/sponsor/verify
Login(limit, body, outcome) ==
    \E o \in LoginOutcomes(sponsorships, cookie, now, limit, body, outcome) :
        /\ cookie' = o[2]
        /\ loggedIn' = (loggedIn \/ o[1].status = 200)
        /\ last' = [op |-> "login", arg |-> body, res |-> o[1], sponsor |-> o[3],
                     limit |-> limit, calls |-> o[4],
                     store |-> IF o[3] = Skipped THEN "none" ELSE outcome]
        /\ UNCHANGED <<sponsorships, now>>
        /\ AdminUnchanged

GetSessionCall ==
    /\ last' = Did("getSession", "none", getSession(cookie, now))
    /\ UNCHANGED <<sponsorships, cookie, now, loggedIn>>
    /\ AdminUnchanged

VerifySessionCall(outcome) ==
    \E r \in verifySession(cookie, now, sponsorships, outcome) :
        /\ last' = Did("verifySession", outcome, r)
        /\ UNCHANGED <<sponsorships, cookie, now, loggedIn>>
        /\ AdminUnchanged

RequireAuthCall(outcome) ==
    \E r \in requireAuth(cookie, now, sponsorships, outcome) :
        /\ last' = Did("requireAuth", outcome, r)
        /\ UNCHANGED <<sponsorships, cookie, now, loggedIn>>
        /\ AdminUnchanged

VerifySessionForCodeCall(sponsorCode) ==
    /\ last' = Did("verifySessionForCode", sponsorCode,
                   verifySessionForCode(cookie, now, sponsorCode))
    /\ UNCHANGED <<sponsorships, cookie, now, loggedIn>>
    /\ AdminUnchanged

\* Mutant: the cookie is left in place.
clearSession_KeepsCookie ==
    /\ cookie' = cookie
    /\ last' = Did("clearSession", "none", Null)
    /\ UNCHANGED <<sponsorships, now, loggedIn>>
    /\ AdminUnchanged

\* verifySession as above, remembering the cookies it refused while the store
\* answered.
VerifySessionTracked(outcome) ==
    \E r \in verifySession(cookie, now, sponsorships, outcome) :
        /\ last' = Did("verifySession", outcome, r)
        /\ refused' = IF r = Null /\ outcome = "ok" THEN refused \cup {cookie} ELSE refused
        /\ UNCHANGED <<sponsorships, cookie, now, loggedIn>>
        /\ UNCHANGED <<updates, adminEnv, adminReq, requests, supabaseClient>>

\* cookieStore.delete(SESSION.COOKIE_NAME)
clearSession ==
    /\ cookie' = NoCookie
    /\ last' = Did("clearSession", "none", Null)
    /\ UNCHANGED <<sponsorships, now, loggedIn>>
    /\ AdminUnchanged

\* The browser replaces the cookie it holds.
BrowserSetsCookie(c) ==
    /\ cookie' = c
    /\ last' = Did("browserSetsCookie", "none", Null)
    /\ UNCHANGED <<sponsorships, now, loggedIn>>
    /\ AdminUnchanged

FindSponsorshipByCredentialsCall(email, code, outcome) ==
    \E r \in findSponsorshipByCredentials(sponsorships, email, code, outcome) :
        /\ last' = Did("findSponsorshipByCredentials",
                       [email |-> email, code |-> code, outcome |-> outcome], r)
        /\ UNCHANGED <<sponsorships, cookie, now, loggedIn>>
        /\ AdminUnchanged

\* databaseClient.updateRecord('sponsorships', recordId, {field: value}): how an
\* administrator activates, suspends, shows or hides a sponsorship.
updateRecord(recordId, field, value, outcome) ==
    /\ sponsorships' =
         IF outcome # "ok" THEN sponsorships
         ELSE [sponsorships EXCEPT ![recordId][mapFieldsToColumns(field)] = value]
    /\ last' = Did("updateRecord", [id |-> recordId, field |-> field],
                   IF outcome = "ok" THEN Null ELSE Throw("DatabaseError"))
    /\ UNCHANGED <<cookie, now, loggedIn>>
    /\ AdminUnchanged

Tick ==
    /\ now + SESSION_DAYS <= MaxTime
    /\ now' = now + SESSION_DAYS
    /\ last' = Did("tick", "none", Null)
    /\ UNCHANGED <<sponsorships, cookie, loggedIn>>
    /\ AdminUnchanged

\* A seeded row: no update has been requested yet.
SponsorshipRow(code, email, child, auth, visible) ==
    [sponsor_code |-> code, sponsor_email |-> email, child_id |-> child,
     auth_status |-> auth, visible_to_sponsor |-> visible,
     last_request_at |-> InvalidDate, next_request_eligible_at |-> InvalidDate]

\* The request-update calls, and a call that has not been made.
Calls == {"call1", "call2"}
Idle == [pc |-> "idle", startedAt |-> InvalidDate, record |-> Null, result |-> Null,
         created |-> 0]

Init ==
    /\ \E a1 \in AuthStatuses, a2 \in AuthStatuses, v1 \in BOOLEAN, v2 \in BOOLEAN :
         sponsorships =
           [i \in RowIds |->
              IF i = "rec1"
              THEN SponsorshipRow("BAN-2025-104", "a@x.com", "child-1", a1, v1)
              ELSE SponsorshipRow("BAN-2025-999", "b@x.com", "child-2", a2, v2)]
    /\ updates = <<>>
    /\ cookie = NoCookie
    /\ now = 1
    /\ loggedIn = FALSE
    /\ adminEnv = UnsetEnv
    /\ adminReq = NoAdminRequest
    /\ requests = [p \in Calls |-> Idle]
    /\ supabaseClient = NotConstructed
    /\ refused = {}
    /\ last = Did("init", "none", Null)

Next ==
    \/ \E limit \in PlainLimits, body \in LoginBodies, outcome \in StoreOutcomes :
         Login(limit, body, outcome)
    \/ GetSessionCall
    \/ \E outcome \in StoreOutcomes : VerifySessionCall(outcome)
    \/ \E outcome \in StoreOutcomes : RequireAuthCall(outcome)
    \/ \E sponsorCode \in Codes : VerifySessionForCodeCall(sponsorCode)
    \/ clearSession
    \/ \E c \in BrowserCookies : BrowserSetsCookie(c)
    \/ \E email \in Emails, code \in Codes, outcome \in StoreOutcomes :
         FindSponsorshipByCredentialsCall(email, code, outcome)
    \/ \E id \in RowIds, outcome \in StoreOutcomes :
         \/ \E value \in AuthStatuses : updateRecord(id, "AuthStatus", value, outcome)
         \/ \E value \in BOOLEAN : updateRecord(id, "VisibleToSponsor", value, outcome)
    \/ Tick

Spec == Init /\ [][Next]_vars

\* The same system with a browser that only ever holds the cookie the login
\* route gave it.
HonestNext ==
    \/ \E limit \in PlainLimits, body \in LoginBodies, outcome \in StoreOutcomes :
         Login(limit, body, outcome)
    \/ GetSessionCall
    \/ \E outcome \in StoreOutcomes : VerifySessionCall(outcome)
    \/ \E outcome \in StoreOutcomes : RequireAuthCall(outcome)
    \/ \E sponsorCode \in Codes : VerifySessionForCodeCall(sponsorCode)
    \/ clearSession
    \/ \E id \in RowIds, outcome \in StoreOutcomes :
         \/ \E value \in AuthStatuses : updateRecord(id, "AuthStatus", value, outcome)
         \/ \E value \in BOOLEAN : updateRecord(id, "VisibleToSponsor", value, outcome)
    \/ Tick

HonestSpec == Init /\ [][HonestNext]_vars

\* ------------------------------------------------- admin submission route
\* free-text validators: non-empty, length-bounded text passes.
validateRequiredString(raw) ==
    IF raw = "" THEN Failure("Required") ELSE Success(raw)
validateUpdateTitle(raw) == validateRequiredString(raw)
validateUpdateContent(raw) == validateRequiredString(raw)

GoodForm ==
    [sponsorCode |-> "BAN-2025-104", updateType |-> "Photo Update",
     title |-> "Term report", content |-> "She passed.", submittedBy |-> "Field officer"]
AdminForms ==
    {GoodForm,
     [GoodForm EXCEPT !.sponsorCode = "BAN-2025-999", !.updateType = ""],
     [GoodForm EXCEPT !.sponsorCode = "BAN 2025;104"],
     [GoodForm EXCEPT !.title = ""],
     [GoodForm EXCEPT !.content = ""],
     [GoodForm EXCEPT !.submittedBy = ""],
     [GoodForm EXCEPT !.sponsorCode = "BAN 2025;104", !.title = "", !.content = "",
                      !.submittedBy = ""]}

\* How the two Airtable calls of the route end: the sponsorship lookup, then
\* the create. A call answers, answers with an HTTP error, or fails to connect.
FetchOutcomes == {"ok", "http_error", "network_error"}
AdminInputs ==
    {[limited |-> l.limited, retryAfter |-> l.retryAfter, form |-> GoodForm,
      lookup |-> "ok", create |-> "ok"] : l \in RateLimitResults \ {NotLimited}} \cup
    {[limited |-> FALSE, retryAfter |-> RetryAfterUndefined, form |-> f,
      lookup |-> "ok", create |-> "ok"] : f \in AdminForms} \cup
    {[limited |-> FALSE, retryAfter |-> RetryAfterUndefined, form |-> GoodForm,
      lookup |-> l, create |-> c] : l \in FetchOutcomes, c \in FetchOutcomes}

NoTime == InvalidDate
UpdateRow(child, code, type, title, content, by, t) ==
    [child_id |-> child, sponsor_code |-> code, update_type |-> type, title |-> title,
     content |-> content, status |-> "Pending Review", visible_to_sponsor |-> FALSE,
     requested_by_sponsor |-> FALSE, requested_at |-> t, published_at |-> NoTime,
     submitted_by |-> by, submitted_at |-> NoTime]

\* Mutant: the lookup without its filter on the sponsor code.
ChildIDs_NoCodeFilter(store, code, lookup) ==
    IF lookup # "ok" THEN {""} ELSE {store[i].child_id : i \in DOMAIN store}

\* {SponsorCode} = "<code>", maxRecords=1: records[0].fields['ChildID'] || null,
\* for each record the lookup can put first.
ChildIDs(store, code, lookup) ==
    IF lookup # "ok" THEN {""}
    ELSE LET ids == {i \in DOMAIN store : store[i].sponsor_code = code}
         IN IF ids = {} THEN {""} ELSE {store[i].child_id : i \in ids}

\* The route once the rate limiter has let the request through: the ways it
\* can run, each <<response, rows to insert, calls made after the limiter's>>.
\* verifyFormToken is only called when verifyAdminToken answered false.
AdminSubmitAfterLimit(store, env, req, in, t) ==
    LET auth == IF verifyAdminToken(env, req)
                THEN <<"request.formData", "verifyAdminToken">>
                ELSE <<"request.formData", "verifyAdminToken", "verifyFormToken">>
        validated == auth \o <<"validateSponsorCode", "validateUpdateTitle",
                               "validateUpdateContent", "validateRequiredString">>
        codeValidation == validateSponsorCode(in.form.sponsorCode)
        titleValidation == validateUpdateTitle(in.form.title)
        contentValidation == validateUpdateContent(in.form.content)
        submittedByValidation == validateRequiredString(in.form.submittedBy)
    IN IF ~verifyAdminToken(env, req) /\ ~verifyFormToken(env, req.adminPassword)
           THEN {<<Response(401, "Unauthorized - Invalid admin password"), <<>>, auth>>}
       ELSE IF ~codeValidation.success
           THEN {<<Response(400, codeValidation.error), <<>>,
                   Append(auth, "validateSponsorCode")>>}
       ELSE IF ~titleValidation.success
           THEN {<<Response(400, titleValidation.error), <<>>,
                   auth \o <<"validateSponsorCode", "validateUpdateTitle">> >>}
       ELSE IF ~contentValidation.success
           THEN {<<Response(400, contentValidation.error), <<>>,
                   auth \o <<"validateSponsorCode", "validateUpdateTitle",
                             "validateUpdateContent">> >>}
       ELSE IF ~submittedByValidation.success
           THEN {<<Response(400, submittedByValidation.error), <<>>, validated>>}
       ELSE IF in.lookup = "network_error"
           THEN {<<Response(500, "raw"), <<>>, Append(validated, "fetch sponsorships")>>}
       ELSE {IF childID = ""
                 THEN <<Response(404, "Child ID not found for this sponsor code"), <<>>,
                        Append(validated, "fetch sponsorships")>>
             ELSE IF in.create # "ok"
                 THEN <<Response(500, "raw"), <<>>,
                        validated \o <<"fetch sponsorships", "fetch updates">> >>
             ELSE <<Response(200, "none"),
                    <<UpdateRow(childID, codeValidation.data,
                                IF in.form.updateType = "" THEN "Progress Report"
                                ELSE in.form.updateType,
                                titleValidation.data, contentValidation.data,
                                submittedByValidation.data, t)>>,
                    validated \o <<"fetch sponsorships", "fetch updates">> >> :
             childID \in ChildIDs(store, codeValidation.data, in.lookup)}

\* Mutant: the rate limiter's answer is not acted on.
AdminSubmitOutcomes_LimitIgnored(store, env, req, in, t) ==
    {<<o[1], o[2], <<"checkUpdateSubmissionRateLimit">> \o o[3]>> :
        o \in AdminSubmitAfterLimit(store, env, req, in, t)}

\* The ways the route can run on a request: <<response, rows to insert, calls>>.
AdminSubmitOutcomes(store, env, req, in, t) ==
    IF in.limited
        THEN {<<RateLimited(in), <<>>, <<"checkUpdateSubmissionRateLimit">> >>}
    ELSE {<<o[1], o[2], <<"checkUpdateSubmissionRateLimit">> \o o[3]>> :
             o \in AdminSubmitAfterLimit(store, env, req, in, t)}

SessionUnchanged ==
    UNCHANGED <<sponsorships, cookie, now, loggedIn, adminEnv, adminReq, requests,
                supabaseClient, refused>>

\* POST /api/admin/updates/submit on the request at hand
AdminSubmit(in) ==
    \E o \in AdminSubmitOutcomes(sponsorships, adminEnv, adminReq, in, now) :
        /\ Len(updates) + Len(o[2]) <= MaxUpdates
        /\ updates' = updates \o o[2]
        /\ last' = [op |-> "adminSubmit", arg |-> in.limited, res |-> o[1],
                     limit |-> [limited |-> in.limited, retryAfter |-> in.retryAfter],
                     calls |-> o[3],
                     lookup |-> IF \E i \in 1..Len(o[3]) : o[3][i] = "fetch sponsorships"
                                THEN in.lookup ELSE "none"]
        /\ SessionUnchanged

VerifyAdminTokenCall ==
    /\ last' = Did("verifyAdminToken", "none", Bool(verifyAdminToken(adminEnv, adminReq)))
    /\ UNCHANGED updates
    /\ SessionUnchanged

VerifyFormTokenCall ==
    /\ last' = Did("verifyFormToken", "none",
                   Bool(verifyFormToken(adminEnv, adminReq.adminPassword)))
    /\ UNCHANGED updates
    /\ SessionUnchanged

\* timingSafeCompare(requestToken, adminToken) on the X-Admin-Token value
TimingSafeCompareCall ==
    /\ adminReq.xAdminToken.present
    /\ adminEnv.present
    /\ last' = Did("timingSafeCompare", "none",
                   Bool(timingSafeCompare(adminReq.xAdminToken.value, adminEnv.value)))
    /\ UNCHANGED updates
    /\ SessionUnchanged

AdminInit ==
    /\ sponsorships =
         [i \in RowIds |->
            IF i = "rec1"
            THEN SponsorshipRow("BAN-2025-104", "a@x.com", "child-1", "Active", TRUE)
            ELSE SponsorshipRow("BAN-2025-999", "b@x.com", "", "Active", TRUE)]
    /\ updates = <<>>
    /\ cookie = NoCookie
    /\ now = 1
    /\ loggedIn = FALSE
    /\ adminEnv \in AdminEnvs
    /\ adminReq \in AdminRequests
    /\ requests = [p \in Calls |-> Idle]
    /\ supabaseClient = NotConstructed
    /\ refused = {}
    /\ last = Did("init", "none", Null)

AdminNext ==
    \/ \E in \in AdminInputs : AdminSubmit(in)
    \/ VerifyAdminTokenCall
    \/ VerifyFormTokenCall
    \/ TimingSafeCompareCall

AdminSpec == AdminInit /\ [][AdminNext]_vars

\* ------------------------------------------------------- update lifecycle
Children == {"child-1", "child-2"}
\* Update ids asked for: the rows of the table, and one id no row has.
UpdateIds == 1..(MaxUpdates + 1)
\* How a call to the updates table ends: the store answers, the store answers
\* with an error object, or the client throws (no connection).
UpdateStoreOutcomes == {"ok", "error", "exception"}

\* throw new DatabaseError(message)
DatabaseError(message) == [tag |-> "throw", error |-> "DatabaseError", message |-> message]
Rows(records) == [tag |-> "rows", rows |-> records]

\* row.x || undefined: null and false become undefined.
toAirtableUpdateRecord(id, row) ==
    [id |-> id,
     ChildID |-> row.child_id,
     SponsorCode |-> IF row.sponsor_code = "" THEN Undefined ELSE row.sponsor_code,
     Status |-> row.status,
     VisibleToSponsor |-> row.visible_to_sponsor,
     RequestedBySponsor |-> IF row.requested_by_sponsor THEN "true" ELSE Undefined,
     RequestedAt |-> row.requested_at,
     PublishedAt |-> row.published_at]

\* Mutant: the requested row is inserted visible to the sponsor.
RequestRow_Visible(childId, sponsorCode, t) ==
    [child_id |-> childId, sponsor_code |-> sponsorCode, update_type |-> "Progress Report",
     title |-> "Update Requested", content |-> "Sponsor requested a new update.",
     status |-> "Pending Review", visible_to_sponsor |-> TRUE,
     requested_by_sponsor |-> TRUE, requested_at |-> t, published_at |-> NoTime,
     submitted_by |-> "", submitted_at |-> NoTime]

\* The row createUpdateRequest inserts; columns it does not name take the
\* table's defaults (published_at, submitted_by, submitted_at: null).
RequestRow(childId, sponsorCode, t) ==
    [child_id |-> childId, sponsor_code |-> sponsorCode, update_type |-> "Progress Report",
     title |-> "Update Requested", content |-> "Sponsor requested a new update.",
     status |-> "Pending Review", visible_to_sponsor |-> FALSE,
     requested_by_sponsor |-> TRUE, requested_at |-> t, published_at |-> NoTime,
     submitted_by |-> "", submitted_at |-> NoTime]

\* Mutant: the submitted row is stamped with a publish time on insert.
SubmitRow_Stamped(data, t) ==
    [child_id |-> data.childId, sponsor_code |-> data.sponsorCode,
     update_type |-> data.updateType, title |-> data.title, content |-> data.content,
     status |-> "Pending Review", visible_to_sponsor |-> FALSE,
     requested_by_sponsor |-> FALSE, requested_at |-> NoTime, published_at |-> t,
     submitted_by |-> data.submittedBy, submitted_at |-> t]

\* The row submitUpdate inserts; requested_by_sponsor defaults to false,
\* requested_at and published_at to null, sponsor_code to null when not given.
SubmitRow(data, t) ==
    [child_id |-> data.childId, sponsor_code |-> data.sponsorCode,
     update_type |-> data.updateType, title |-> data.title, content |-> data.content,
     status |-> "Pending Review", visible_to_sponsor |-> FALSE,
     requested_by_sponsor |-> FALSE, requested_at |-> NoTime, published_at |-> NoTime,
     submitted_by |-> data.submittedBy, submitted_at |-> t]

\* What the field team submits: an update for the other child, without a
\* sponsor code.
SubmitData ==
    {[childId |-> "child-2", sponsorCode |-> c, updateType |-> "Milestone",
      title |-> "New school", content |-> "He moved up.", submittedBy |-> "Field officer"] :
        c \in {""}}

\* The result of createUpdateRequest and the table it leaves.
createUpdateRequest(table, childId, sponsorCode, t, outcome) ==
    IF outcome = "exception" THEN <<DatabaseError("Failed to connect to database"), table>>
    ELSE IF outcome = "error" THEN <<DatabaseError("Failed to create update request"), table>>
    ELSE LET row == RequestRow(childId, sponsorCode, t)
         IN <<Record(toAirtableUpdateRecord(Len(table) + 1, row)), Append(table, row)>>

submitUpdate(table, data, t, outcome) ==
    IF outcome = "exception" THEN <<DatabaseError("Failed to connect to database"), table>>
    ELSE IF outcome = "error" THEN <<DatabaseError("Failed to submit update"), table>>
    ELSE LET row == SubmitRow(data, t)
         IN <<Record(toAirtableUpdateRecord(Len(table) + 1, row)), Append(table, row)>>

\* Mutant: the update statement without .eq('id', updateId): every row of the
\* table is published.
publishUpdate_NoIdFilter(table, updateId, t, outcome) ==
    IF outcome = "exception" THEN <<DatabaseError("Failed to connect to database"), table>>
    ELSE IF outcome = "error" THEN <<DatabaseError("Failed to publish update"), table>>
    ELSE IF updateId \notin DOMAIN table
        THEN <<DatabaseError("Failed to publish update"), table>>
    ELSE LET published == [i \in DOMAIN table |->
                             [table[i] EXCEPT !.status = "Published",
                                              !.visible_to_sponsor = TRUE,
                                              !.published_at = t]]
         IN <<Record(toAirtableUpdateRecord(updateId, published[updateId])), published>>

\* .update({status, visible_to_sponsor, published_at}).eq('id', updateId)
\* .select().single(): whatever the row's status; with no such row .single()
\* answers with an error object (PGRST116), which is thrown like any other.
publishUpdate(table, updateId, t, outcome) ==
    IF outcome = "exception" THEN <<DatabaseError("Failed to connect to database"), table>>
    ELSE IF outcome = "error" THEN <<DatabaseError("Failed to publish update"), table>>
    ELSE IF updateId \notin DOMAIN table
        THEN <<DatabaseError("Failed to publish update"), table>>
    ELSE LET row == [table[updateId] EXCEPT !.status = "Published",
                                            !.visible_to_sponsor = TRUE,
                                            !.published_at = t]
         IN <<Record(toAirtableUpdateRecord(updateId, row)),
              [table EXCEPT ![updateId] = row]>>

\* Mutant: the rejection leaves the visibility flag as it is.
rejectUpdate_KeepsVisibility(table, updateId, outcome) ==
    IF outcome = "exception" THEN <<DatabaseError("Failed to connect to database"), table>>
    ELSE IF outcome = "error" THEN <<DatabaseError("Failed to reject update"), table>>
    ELSE IF updateId \notin DOMAIN table
        THEN <<DatabaseError("Failed to reject update"), table>>
    ELSE LET row == [table[updateId] EXCEPT !.status = "Rejected"]
         IN <<Record(toAirtableUpdateRecord(updateId, row)),
              [table EXCEPT ![updateId] = row]>>

\* .update({status, visible_to_sponsor}).eq('id', updateId).select().single()
rejectUpdate(table, updateId, outcome) ==
    IF outcome = "exception" THEN <<DatabaseError("Failed to connect to database"), table>>
    ELSE IF outcome = "error" THEN <<DatabaseError("Failed to reject update"), table>>
    ELSE IF updateId \notin DOMAIN table
        THEN <<DatabaseError("Failed to reject update"), table>>
    ELSE LET row == [table[updateId] EXCEPT !.status = "Rejected",
                                            !.visible_to_sponsor = FALSE]
         IN <<Record(toAirtableUpdateRecord(updateId, row)),
              [table EXCEPT ![updateId] = row]>>

\* ORDER BY published_at DESC: a null sorts before every time.
DescBefore(a, b) == a = NoTime \/ (b # NoTime /\ a >= b)

\* Mutant: the query without .eq('child_id', childId).
MatchesForChild_AnyChild(row, childId) ==
    /\ row.status = "Published"
    /\ row.visible_to_sponsor = TRUE

\* .eq('child_id', childId).eq('status', 'Published').eq('visible_to_sponsor', true)
MatchesForChild(row, childId) ==
    /\ row.child_id = childId
    /\ row.status = "Published"
    /\ row.visible_to_sponsor = TRUE

\* The set of results the call can give: the matching rows in any order that
\* is descending in published_at (rows with equal times come in either order).
findUpdatesForChild(table, childId, outcome) ==
    IF outcome = "exception" THEN {DatabaseError("Failed to connect to database")}
    ELSE IF outcome = "error" THEN {DatabaseError("Failed to find updates")}
    ELSE LET ids == {i \in DOMAIN table : MatchesForChild(table[i], childId)}
             n == Cardinality(ids)
             orders == {s \in [1..n -> ids] :
                          /\ \A j, k \in 1..n : j # k => s[j] # s[k]
                          /\ \A j, k \in 1..n :
                               j < k => DescBefore(table[s[j]].published_at,
                                                   table[s[k]].published_at)}
         IN {Rows([j \in 1..n |-> toAirtableUpdateRecord(s[j], table[s[j]])]) : s \in orders}

\* Mutant: the query without .eq('status', 'Published').
findMostRecentUpdateForChild_AnyStatus(table, childId, outcome) ==
    IF outcome = "exception" THEN {DatabaseError("Failed to connect to database")}
    ELSE IF outcome = "error" THEN {DatabaseError("Failed to find update")}
    ELSE LET ids == {i \in DOMAIN table : table[i].child_id = childId}
             first == {i \in ids : \A j \in ids :
                          DescBefore(table[i].published_at, table[j].published_at)}
         IN IF ids = {} THEN {Null}
            ELSE {Record(toAirtableUpdateRecord(i, table[i])) : i \in first}

\* .eq('child_id', childId).eq('status', 'Published')
\* .order('published_at', { ascending: false }).limit(1).single(): the set of
\* results the call can give. With no matching row .single() answers with
\* PGRST116 and no data, which is returned as null; otherwise the first row of
\* the ordering (any of the rows that sort first when times are equal).
findMostRecentUpdateForChild(table, childId, outcome) ==
    IF outcome = "exception" THEN {DatabaseError("Failed to connect to database")}
    ELSE IF outcome = "error" THEN {DatabaseError("Failed to find update")}
    ELSE LET ids == {i \in DOMAIN table : /\ table[i].child_id = childId
                                          /\ table[i].status = "Published"}
             first == {i \in ids : \A j \in ids :
                          DescBefore(table[i].published_at, table[j].published_at)}
         IN IF ids = {} THEN {Null}
            ELSE {Record(toAirtableUpdateRecord(i, table[i])) : i \in first}

CreateUpdateRequestCall(childId, sponsorCode, outcome) ==
    /\ Len(updates) < MaxUpdates
    /\ LET o == createUpdateRequest(updates, childId, sponsorCode, now, outcome)
       IN /\ updates' = o[2]
          /\ last' = Did("createUpdateRequest", childId, o[1])
    /\ SessionUnchanged

SubmitUpdateCall(data, outcome) ==
    /\ Len(updates) < MaxUpdates
    /\ LET o == submitUpdate(updates, data, now, outcome)
       IN /\ updates' = o[2]
          /\ last' = Did("submitUpdate", data.childId, o[1])
    /\ SessionUnchanged

PublishUpdateCall(updateId, outcome) ==
    /\ LET o == publishUpdate(updates, updateId, now, outcome)
       IN /\ updates' = o[2]
          /\ last' = [op |-> "publishUpdate", arg |-> updateId, res |-> o[1],
                       outcome |-> outcome]
    /\ SessionUnchanged

RejectUpdateCall(updateId, outcome) ==
    /\ LET o == rejectUpdate(updates, updateId, outcome)
       IN /\ updates' = o[2]
          /\ last' = [op |-> "rejectUpdate", arg |-> updateId, res |-> o[1],
                       outcome |-> outcome]
    /\ SessionUnchanged

FindUpdatesForChildCall(childId, outcome) ==
    \E r \in findUpdatesForChild(updates, childId, outcome) :
        /\ last' = Did("findUpdatesForChild", childId, r)
        /\ UNCHANGED updates
        /\ SessionUnchanged

FindMostRecentUpdateForChildCall(childId, outcome) ==
    \E r \in findMostRecentUpdateForChild(updates, childId, outcome) :
        /\ last' = Did("findMostRecentUpdateForChild", childId, r)
        /\ UNCHANGED updates
        /\ SessionUnchanged

\* The admin request of the review desk: it carries the configured secret.
UpdatesInit ==
    /\ sponsorships =
         [i \in RowIds |->
            IF i = "rec1"
            THEN SponsorshipRow("BAN-2025-104", "a@x.com", "child-1", "Active", TRUE)
            ELSE SponsorshipRow("BAN-2025-999", "b@x.com", "child-2", "Active", TRUE)]
    /\ updates = <<>>
    /\ cookie = NoCookie
    /\ now = MaxTime - SESSION_DAYS
    /\ loggedIn = FALSE
    /\ adminEnv = Given(<<97>>)
    /\ adminReq = [NoAdminRequest EXCEPT !.xAdminToken = Given(<<97>>)]
    /\ requests = [p \in Calls |-> Idle]
    /\ supabaseClient = NotConstructed
    /\ refused = {}
    /\ last = Did("init", "none", Null)

UpdatesNext ==
    \/ \E outcome \in StoreOutcomes :
         CreateUpdateRequestCall("child-1", "BAN-2025-104", outcome)
    \/ \E data \in SubmitData, outcome \in StoreOutcomes : SubmitUpdateCall(data, outcome)
    \/ \E in \in {i \in AdminInputs : i.form = GoodForm /\ i.lookup = "ok" /\ i.create = "ok"} :
         AdminSubmit(in)
    \/ \E updateId \in UpdateIds, outcome \in UpdateStoreOutcomes :
         PublishUpdateCall(updateId, outcome)
    \/ \E updateId \in UpdateIds, outcome \in UpdateStoreOutcomes :
         RejectUpdateCall(updateId, outcome)
    \/ \E childId \in Children, outcome \in StoreOutcomes :
         FindUpdatesForChildCall(childId, outcome)
    \/ Tick

UpdatesSpec == UpdatesInit /\ [][UpdatesNext]_vars

\* The lifecycle operations on the updates table alone: the inserts with the
\* store answering, the review operations and the most-recent query with every
\* way the store can end them.
LifecycleNext ==
    \/ \E childId \in Children : CreateUpdateRequestCall(childId, "BAN-2025-104", "ok")
    \/ \E data \in SubmitData : SubmitUpdateCall(data, "ok")
    \/ \E updateId \in UpdateIds, outcome \in UpdateStoreOutcomes :
         PublishUpdateCall(updateId, outcome)
    \/ \E updateId \in UpdateIds, outcome \in UpdateStoreOutcomes :
         RejectUpdateCall(updateId, outcome)
    \/ \E childId \in Children, outcome \in UpdateStoreOutcomes :
         FindMostRecentUpdateForChildCall(childId, outcome)
    \/ Tick

LifecycleSpec == UpdatesInit /\ [][LifecycleNext]_vars

\* ------------------------------------------------ request-eligibility throttle
\* The cooldown a granted request starts, in days.
COOLDOWN_DAYS == 30

\* .update({last_request_at, next_request_eligible_at}).eq('id', recordId): the
\* row is written whatever it holds; an id no row has updates nothing and is
\* no error.
updateSponsorshipRequestTracking(store, recordId, lastRequestAt, nextEligibleAt, outcome) ==
    IF outcome # "ok" THEN <<Throw("DatabaseError"), store>>
    ELSE IF recordId \notin DOMAIN store THEN <<Null, store>>
    ELSE <<Null, [store EXCEPT ![recordId].last_request_at = lastRequestAt,
                               ![recordId].next_request_eligible_at = nextEligibleAt]>>

Allowed == [tag |-> "allowed"]
Denied(nextEligibleAt) == [tag |-> "denied", nextEligibleAt |-> nextEligibleAt]

\* checkAndRecord's rule on the sponsorship record read from the store: deny,
\* reporting the stored time, if next_request_eligible_at is set and in the future.
checkAndRecord(record, t) ==
    IF record.NextRequestEligibleAt # InvalidDate /\ record.NextRequestEligibleAt > t
    THEN Denied(record.NextRequestEligibleAt)
    ELSE Allowed

\* A request-update call for sponsor code BAN-2025-104, in the three store
\* calls it makes, each a suspension point: it reads the sponsorship and applies
\* the rule,
RequestUpdateRead(p, outcome) ==
    /\ requests[p].pc = "idle"
    /\ \E r \in findSponsorshipByCode(sponsorships, "BAN-2025-104", outcome) :
         LET verdict == IF r.tag = "record" THEN checkAndRecord(r.record, now) ELSE r
         IN /\ requests' = [requests EXCEPT ![p] =
                 [pc |-> IF verdict.tag = "allowed" THEN "allowed" ELSE "done",
                  startedAt |-> now, record |-> r, result |-> verdict, created |-> 0]]
            /\ last' = Did("requestUpdate.read", p, verdict)
    /\ UNCHANGED <<sponsorships, updates, cookie, now, loggedIn, adminEnv, adminReq,
                   supabaseClient, refused>>

\* then creates the update request,
RequestUpdateCreate(p, outcome) ==
    /\ requests[p].pc = "allowed"
    /\ Len(updates) < MaxUpdates
    /\ LET rec == requests[p].record.record
           o == createUpdateRequest(updates, rec.ChildID, rec.SponsorCode, now,
                                    IF outcome = "ok" THEN "ok" ELSE "error")
       IN /\ updates' = o[2]
          /\ requests' = [requests EXCEPT ![p] =
                 IF o[1].tag = "record"
                 THEN [@ EXCEPT !.pc = "created", !.created = o[1].record.id]
                 ELSE [@ EXCEPT !.pc = "done", !.result = o[1]]]
          /\ last' = Did("requestUpdate.create", p, o[1])
    /\ UNCHANGED <<sponsorships, cookie, now, loggedIn, adminEnv, adminReq, supabaseClient, refused>>

\* then records last_request_at = now and next_request_eligible_at = now + cooldown.
RequestUpdateTrack(p, outcome) ==
    /\ requests[p].pc = "created"
    /\ LET rec == requests[p].record.record
           o == updateSponsorshipRequestTracking(sponsorships, rec.id, now,
                                                 now + COOLDOWN_DAYS, outcome)
       IN /\ sponsorships' = o[2]
          /\ requests' = [requests EXCEPT ![p] =
                 [@ EXCEPT !.pc = "done",
                           !.result = IF o[1].tag = "throw" THEN o[1] ELSE Allowed]]
          /\ last' = Did("requestUpdate.track", p, o[1])
    /\ UNCHANGED <<updates, cookie, now, loggedIn, adminEnv, adminReq, supabaseClient, refused>>

\* The sponsorship has never requested an update, or its cooldown has run out,
\* or it is in its cooldown.
ThrottleInit ==
    /\ \E tracking \in {<<InvalidDate, InvalidDate>>,
                        <<0, COOLDOWN_DAYS>>,
                        <<MaxTime - SESSION_DAYS, MaxTime - SESSION_DAYS + COOLDOWN_DAYS>>} :
         sponsorships =
           [i \in RowIds |->
              IF i = "rec1"
              THEN [SponsorshipRow("BAN-2025-104", "a@x.com", "child-1", "Active", TRUE)
                      EXCEPT !.last_request_at = tracking[1],
                             !.next_request_eligible_at = tracking[2]]
              ELSE SponsorshipRow("BAN-2025-999", "b@x.com", "child-2", "Active", TRUE)]
    /\ updates = <<>>
    /\ cookie = NoCookie
    /\ now = MaxTime - SESSION_DAYS
    /\ loggedIn = FALSE
    /\ adminEnv = UnsetEnv
    /\ adminReq = NoAdminRequest
    /\ requests = [p \in Calls |-> Idle]
    /\ supabaseClient = NotConstructed
    /\ refused = {}
    /\ last = Did("init", "none", Null)

ThrottleNext ==
    \/ \E p \in Calls, outcome \in StoreOutcomes : RequestUpdateRead(p, outcome)
    \/ \E p \in Calls, outcome \in StoreOutcomes : RequestUpdateCreate(p, outcome)
    \/ \E p \in Calls, outcome \in StoreOutcomes : RequestUpdateTrack(p, outcome)
    \/ Tick

ThrottleSpec == ThrottleInit /\ [][ThrottleNext]_vars

\* ---------------------------------------------------------- checkout route
\* Positive amounts pass, in cents.
validateDonationAmount(raw) ==
    IF raw > 0 THEN Success(raw * 100) ELSE Failure("Invalid donation amount")

\* Requests to the checkout route: whether the Stripe keys are configured, the
\* body (not JSON, or an amount with an optional email), how Stripe answers.
CheckoutBodies ==
    {[kind |-> "notjson", amount |-> 0, email |-> ""]} \cup
    {[kind |-> "object", amount |-> a, email |-> e] :
        a \in {0, 25}, e \in {"", "a@x.com", "not-an-email"}}
CheckoutInputs ==
    {[envOk |-> FALSE, body |-> b, gateway |-> "ok"] : b \in CheckoutBodies} \cup
    {[envOk |-> TRUE, body |-> b, gateway |-> g] : b \in CheckoutBodies, g \in StoreOutcomes}

\* POST (create checkout): <<response, calls made>>.
CheckoutOutcomes(limit, in) ==
    IF limit.limited THEN <<RateLimited(limit), <<"checkCheckoutRateLimit">> >>
    ELSE IF ~in.envOk
        THEN <<Response(500, "raw"), <<"checkCheckoutRateLimit", "validateEnvVars">> >>
    ELSE LET start == <<"checkCheckoutRateLimit", "validateEnvVars", "getStripe",
                        "request.json">>
         IN IF in.body.kind = "notjson" THEN <<Response(500, "raw"), start>>
            ELSE LET amountValidation == validateDonationAmount(in.body.amount)
                     emailValidation == validateEmail(in.body.email)
                     validated == IF in.body.email # ""
                                  THEN start \o <<"validateDonationAmount", "validateEmail">>
                                  ELSE Append(start, "validateDonationAmount")
                 IN IF ~amountValidation.success
                        THEN <<Response(400, amountValidation.error),
                               Append(start, "validateDonationAmount")>>
                    ELSE IF in.body.email # "" /\ ~emailValidation.success
                        THEN <<Response(400, emailValidation.error), validated>>
                    ELSE IF in.gateway # "ok"
                        THEN <<Response(500, "raw"),
                               Append(validated, "stripe.checkout.sessions.create")>>
                    ELSE <<Response(200, "none"),
                           Append(validated, "stripe.checkout.sessions.create")>>

Checkout(limit, in) ==
    LET o == CheckoutOutcomes(limit, in)
    IN /\ last' = [op |-> "checkout", arg |-> in, res |-> o[1], limit |-> limit,
                   calls |-> o[2]]
       /\ UNCHANGED <<sponsorships, updates, cookie, now, loggedIn, adminEnv, adminReq,
                      requests, supabaseClient, refused>>

\* The three rate-limited routes on one deployment: the admin secret is set,
\* the request at hand carries it or carries nothing.
RateLimitInit ==
    /\ \E a1 \in AuthStatuses :
         sponsorships =
           [i \in RowIds |->
              IF i = "rec1"
              THEN SponsorshipRow("BAN-2025-104", "a@x.com", "child-1", a1, TRUE)
              ELSE SponsorshipRow("BAN-2025-999", "b@x.com", "child-2", "Active", TRUE)]
    /\ updates = <<>>
    /\ cookie = NoCookie
    /\ now = 1
    /\ loggedIn = FALSE
    /\ adminEnv = Given(<<97>>)
    /\ adminReq \in {NoAdminRequest, [NoAdminRequest EXCEPT !.adminPassword = Given(<<97>>)]}
    /\ requests = [p \in Calls |-> Idle]
    /\ supabaseClient = NotConstructed
    /\ refused = {}
    /\ last = Did("init", "none", Null)

RateLimitNext ==
    \/ \E limit \in RateLimitResults, body \in LoginBodies, outcome \in StoreOutcomes :
         Login(limit, body, outcome)
    \/ \E in \in AdminInputs : AdminSubmit(in)
    \/ \E limit \in RateLimitResults, in \in CheckoutInputs : Checkout(limit, in)

RateLimitSpec == RateLimitInit /\ [][RateLimitNext]_vars

\* ------------------------------------------------------ sponsorship catalog
\* Ids the store gives to inserted rows.
NewRowIds == {"rec3", "rec4"}

\* sponsor_code TEXT UNIQUE NOT NULL: a row other than recordId holds the code,
\* and the store refuses the write.
CodeTaken(store, recordId, code) ==
    \E i \in DOMAIN store : i # recordId /\ store[i].sponsor_code = code

\* Inserts a row under the code BAN-<year>-<randomNum> the function drew and
\* returns it; the function does not look at the codes in use.
createSponsorship(store, id, data, sponsorCode, outcome) ==
    IF outcome # "ok" \/ CodeTaken(store, id, sponsorCode)
    THEN <<Throw("DatabaseError"), store>>
    ELSE LET row == SponsorshipRow(sponsorCode, data.sponsorEmail, data.childId,
                                   "Active", TRUE)
         IN <<Record(toAirtableSponsorshipRecord(id, row)),
              [i \in DOMAIN store \cup {id} |-> IF i = id THEN row ELSE store[i]]>>

\* .update({sponsor_code, sponsor_email, auth_status, status, visible_to_sponsor,
\* ..}).eq('id', recordId).select().single(): the row is written whatever code
\* it holds; no such row is an error.
assignSponsorToChild(store, recordId, sponsorData, outcome) ==
    IF outcome # "ok" \/ recordId \notin DOMAIN store
       \/ CodeTaken(store, recordId, sponsorData.sponsorCode)
    THEN <<Throw("DatabaseError"), store>>
    ELSE LET row == [store[recordId] EXCEPT !.sponsor_code = sponsorData.sponsorCode,
                                           !.sponsor_email = sponsorData.sponsorEmail,
                                           !.auth_status = "Active",
                                           !.visible_to_sponsor = TRUE]
         IN <<Record(toAirtableSponsorshipRecord(recordId, row)),
              [store EXCEPT ![recordId] = row]>>

CreateSponsorshipCall(data, sponsorCode, outcome) ==
    \E id \in NewRowIds \ DOMAIN sponsorships :
        LET o == createSponsorship(sponsorships, id, data, sponsorCode, outcome)
        IN /\ sponsorships' = o[2]
           /\ last' = Did("createSponsorship", data, o[1])
           /\ UNCHANGED <<cookie, now, loggedIn>>
           /\ AdminUnchanged

AssignSponsorToChildCall(recordId, sponsorData, outcome) ==
    LET o == assignSponsorToChild(sponsorships, recordId, sponsorData, outcome)
    IN /\ sponsorships' = o[2]
       /\ last' = Did("assignSponsorToChild",
                      [recordId |-> recordId, sponsorData |-> sponsorData], o[1])
       /\ UNCHANGED <<cookie, now, loggedIn>>
       /\ AdminUnchanged

CatalogNext ==
    \/ \E email \in Emails, childId \in Children, sponsorCode \in Codes \cup {UnissuedCode},
          outcome \in StoreOutcomes :
         CreateSponsorshipCall([sponsorEmail |-> email, childId |-> childId],
                               sponsorCode, outcome)
    \/ \E recordId \in RowIds \cup NewRowIds, email \in Emails,
          sponsorCode \in Codes \cup {UnissuedCode}, outcome \in StoreOutcomes :
         AssignSponsorToChildCall(recordId,
                                  [sponsorEmail |-> email, sponsorCode |-> sponsorCode],
                                  outcome)

CatalogSpec == Init /\ [][CatalogNext]_vars

\* ---------------------------------------------------- store client alone
\* const supabase = getSupabaseClient() in request p, which then awaits its
\* query holding that client; a throw ends the request.
GetSupabaseClientCall(p, caller, configOk) ==
    LET o == getSupabaseClient(supabaseClient, configOk)
    IN /\ requests[p].pc = "idle"
       /\ o[2].made <= MaxClients
       /\ supabaseClient' = o[2]
       /\ requests' = [requests EXCEPT ![p] =
              IF o[1].tag = "client" THEN [Idle EXCEPT !.pc = "querying", !.result = o[1]]
              ELSE Idle]
       /\ last' = Did("getSupabaseClient", [call |-> p, caller |-> caller], o[1])
       /\ UNCHANGED <<sponsorships, updates, cookie, now, loggedIn, adminEnv, adminReq,
                      refused>>

\* The awaited query of request p settles.
QuerySettles(p) ==
    /\ requests[p].pc = "querying"
    /\ requests' = [requests EXCEPT ![p] = Idle]
    /\ last' = Did("querySettles", p, Null)
    /\ UNCHANGED supabaseClient
    /\ UNCHANGED <<sponsorships, updates, cookie, now, loggedIn, adminEnv, adminReq,
                   refused>>

CreateSupabaseClientCall(configOk) ==
    LET o == createSupabaseClient(supabaseClient, configOk)
    IN /\ o[2].made <= MaxClients
       /\ supabaseClient' = o[2]
       /\ last' = Did("createSupabaseClient", "none", o[1])
       /\ UNCHANGED requests
       /\ UNCHANGED <<sponsorships, updates, cookie, now, loggedIn, adminEnv, adminReq,
                      refused>>

\* One process: requests obtain the client and await their queries in any order.
SingletonInit ==
    /\ sponsorships =
         [i \in RowIds |->
            IF i = "rec1"
            THEN SponsorshipRow("BAN-2025-104", "a@x.com", "child-1", "Active", TRUE)
            ELSE SponsorshipRow("BAN-2025-999", "b@x.com", "child-2", "Active", TRUE)]
    /\ updates = <<>>
    /\ cookie = NoCookie
    /\ now = 1
    /\ loggedIn = FALSE
    /\ adminEnv = UnsetEnv
    /\ adminReq = NoAdminRequest
    /\ requests = [p \in Calls |-> Idle]
    /\ supabaseClient = NotConstructed
    /\ refused = {}
    /\ last = Did("init", "none", Null)

SingletonNext ==
    \/ \E p \in Calls, configOk \in BOOLEAN,
          caller \in {"findSponsorshipByCredentials", "findSponsorshipByCode",
                      "updateSponsorshipRequestTracking", "findUpdatesForChild",
                      "createUpdateRequest"} :
         GetSupabaseClientCall(p, caller, configOk)
    \/ \E p \in Calls : QuerySettles(p)
    \/ \E configOk \in BOOLEAN : CreateSupabaseClientCall(configOk)

SingletonSpec == SingletonInit /\ [][SingletonNext]_vars

\* ------------------------------------- credential checks on any store answer
\* The two credential checks when the store may also answer with a row that
\* does not satisfy the query.
RecheckNext ==
    \/ \E body \in LoginBodies, outcome \in StoreOutcomes \cup {"unfiltered"} :
         Login(NotLimited, body, outcome)
    \/ \E email \in Emails, code \in Codes, outcome \in StoreOutcomes \cup {"unfiltered"} :
         FindSponsorshipByCredentialsCall(email, code, outcome)
    \/ \E id \in RowIds, outcome \in StoreOutcomes :
         \/ \E value \in AuthStatuses : updateRecord(id, "AuthStatus", value, outcome)
         \/ \E value \in BOOLEAN : updateRecord(id, "VisibleToSponsor", value, outcome)

RecheckSpec == Init /\ [][RecheckNext]_vars

\* ------------------------------------------------- sessions over store edits
\* A browser that keeps the cookie it was given, an administrator who
\* deactivates and reactivates sponsorships, and the re-check of the session.
RevalidationNext ==
    \/ \E email \in Emails, code \in Codes :
         Login(NotLimited, [kind |-> "object", email |-> email, sponsorCode |-> code], "ok")
    \/ \E outcome \in StoreOutcomes : VerifySessionTracked(outcome)
    \/ \E id \in RowIds :
         \/ \E value \in AuthStatuses : updateRecord(id, "AuthStatus", value, "ok")
         \/ \E value \in BOOLEAN : updateRecord(id, "VisibleToSponsor", value, "ok")
    \/ Tick

RevalidationSpec == Init /\ [][RevalidationNext]_vars

\* ------------------------------------------------------- login route alone
\* The login route on a store an administrator edits, for every body a client
\* can send: malformed fields, well-formed credentials of a sponsorship, of
\* another sponsor's, and a well-formed code no sponsorship holds.
LoginSpecBodies ==
    LoginBodies \cup
    {[kind |-> "object", email |-> e, sponsorCode |-> UnissuedCode] : e \in RawEmails}

LoginNext ==
    \/ \E limit \in PlainLimits, body \in LoginSpecBodies, outcome \in StoreOutcomes :
         Login(limit, body, outcome)
    \/ clearSession
    \/ \E id \in RowIds, outcome \in StoreOutcomes :
         \/ \E value \in AuthStatuses : updateRecord(id, "AuthStatus", value, outcome)
         \/ \E value \in BOOLEAN : updateRecord(id, "VisibleToSponsor", value, outcome)

LoginSpec == Init /\ [][LoginNext]_vars

\* ==================================================================== claims

\* C1: every session that verifySession, requireAuth or verifySessionForCode
\* accepts carries a payload the login route issued: a payload the client wrote
\* into the cookie without any login having succeeded is never accepted.
C1_AcceptedSessionWasIssuedByLogin ==
    LET accepted ==
            \/ last.op \in {"verifySession", "requireAuth"} /\ last.res.tag = "record"
            \/ last.op = "verifySessionForCode" /\ last.res.value
    IN accepted => loggedIn

\* C2: a sponsorship that is not Active or not visible is never returned by
\* credential verification, even for exactly its own email and code (the store
\* answering, the result is null), and the login route issues no session for it.
C2_UnusableSponsorshipNeverVerified ==
    LET Usable(row) == row.auth_status = "Active" /\ row.visible_to_sponsor = TRUE
        UsableWith(email, code) ==
            \E i \in RowIds : /\ Usable(sponsorships[i])
                              /\ sponsorships[i].sponsor_email = email
                              /\ sponsorships[i].sponsor_code = code
    IN /\ last.op = "findSponsorshipByCredentials" =>
            /\ last.res.tag = "record" => Usable(sponsorships[last.res.record.id])
            /\ ~UsableWith(last.arg.email, last.arg.code) =>
                   last.res \in {Null, Throw("DatabaseError")}
       /\ last.op = "login" =>
            /\ last.sponsor.tag = "record" =>
                   UsableWith(last.sponsor.record.email, last.sponsor.record.sponsorCode)
            /\ last.res.status = 200 =>
                   /\ last.sponsor.tag = "record"
                   /\ cookie.kind = "object"
                   /\ UsableWith(cookie.email, cookie.sponsorCode)

\* C2 witness: the stored row matches the email and the code exactly, is
\* suspended, inactive or hidden, and findSponsorshipByCredentials answered null.
C2_Witness ==
    /\ last.op = "findSponsorshipByCredentials"
    /\ last.res = Null
    /\ \E i \in RowIds :
           /\ sponsorships[i].sponsor_email = last.arg.email
           /\ sponsorships[i].sponsor_code = last.arg.code
           /\ sponsorships[i].auth_status # "Active" \/ ~sponsorships[i].visible_to_sponsor

\* C3: verifySession returns a sponsorship only if the cookie is present and
\* not expired and the sponsorship with the session's sponsor code is Active
\* and visible in the store at that moment; with that sponsorship deactivated
\* or hidden, verifySession with the same unexpired cookie returns null.
C3_LazyRevalidation ==
    LET LiveRows == {i \in RowIds : /\ sponsorships[i].sponsor_code = cookie.sponsorCode
                                    /\ sponsorships[i].auth_status = "Active"
                                    /\ sponsorships[i].visible_to_sponsor = TRUE}
        expired == cookie.expires # InvalidDate /\ cookie.expires < now
    IN last.op = "verifySession" =>
         /\ last.res.tag = "record" =>
              /\ cookie.kind # "absent"
              /\ ~expired
              /\ last.res.record.id \in LiveRows
         /\ (LiveRows = {} /\ last.arg = "ok") => last.res = Null

\* C3 witness: an unexpired cookie issued for a sponsorship that an administrator
\* has since deactivated or hidden, and verifySession answered null.
C3_Witness ==
    /\ last.op = "verifySession"
    /\ last.arg = "ok"
    /\ last.res = Null
    /\ loggedIn
    /\ cookie.kind = "object"
    /\ cookie.expires = now + SESSION_DAYS
    /\ \E i \in RowIds :
           /\ sponsorships[i].sponsor_code = cookie.sponsorCode
           /\ sponsorships[i].auth_status # "Active" \/ ~sponsorships[i].visible_to_sponsor

\* C4: whenever verifySession, requireAuth or verifySessionForCode grants
\* access, the sponsorship bound to the session is Active and visible in the
\* store at that moment.
C4_EveryGrantRechecksTheStore ==
    LET granted ==
            \/ last.op \in {"verifySession", "requireAuth"} /\ last.res.tag = "record"
            \/ last.op = "verifySessionForCode" /\ last.res.value
    IN granted =>
         \E i \in RowIds : /\ sponsorships[i].sponsor_code = cookie.sponsorCode
                           /\ sponsorships[i].auth_status = "Active"
                           /\ sponsorships[i].visible_to_sponsor = TRUE

\* C5: verifySessionForCode(c) is true if and only if the cookie holds a
\* session that is not expired and whose sponsor code is exactly c; it is
\* false for every other code and for every code when there is no session.
C5_VerifyForCodeIffSessionBoundToCode ==
    LET expired == cookie.expires # InvalidDate /\ cookie.expires < now
        sessionFor(c) == /\ cookie.kind = "object"
                         /\ ~expired
                         /\ cookie.sponsorCode = c
    IN last.op = "verifySessionForCode" => (last.res.value <=> sessionFor(last.arg))

\* C5 witness: an unexpired session bound to one sponsor code, asked about
\* another code, and the answer was false.
C5_Witness ==
    /\ last.op = "verifySessionForCode"
    /\ cookie.kind = "object"
    /\ cookie.expires # InvalidDate /\ cookie.expires >= now
    /\ cookie.sponsorCode \in Codes
    /\ cookie.sponsorCode # last.arg
    /\ last.res = Bool(FALSE)

\* C6: getSession returns the session data only for a cookie that parses to
\* an object with a parseable expires that is not in the past; an absent cookie,
\* a malformed one (not JSON, not an object, no parseable expires) and an
\* expired one all give null.
C6_ReadReturnsNullUnlessWellFormedAndUnexpired ==
    last.op = "getSession" =>
        (last.res.tag = "session" <=>
            /\ cookie.kind = "object"
            /\ cookie.expires # InvalidDate
            /\ cookie.expires >= now)

\* C7: requireAuth returns the sponsorship exactly when verifySession returns
\* one, throws AuthenticationError exactly when verifySession returns null,
\* and a store failure in the re-check surfaces as the store's error.
C7_RequireAuthFollowsVerifySession ==
    last.op = "requireAuth" =>
        LET verified == verifySession(cookie, now, sponsorships, last.arg)
        IN /\ last.res.tag \in {"record", "throw"}
           /\ last.res.tag = "record" => last.res \in verified
           /\ last.res = Throw("AuthenticationError") <=> Null \in verified
           /\ last.res = Throw("DatabaseError") <=>
                  (last.arg # "ok" /\ getSession(cookie, now).tag = "session")

\* C7 witness: requireAuth threw AuthenticationError on an unexpired session
\* whose sponsorship is no longer active and visible.
C7_Witness ==
    /\ last.op = "requireAuth"
    /\ last.res = Throw("AuthenticationError")
    /\ cookie.kind = "object"
    /\ cookie.expires # InvalidDate /\ cookie.expires >= now
    /\ \E i \in RowIds :
           /\ sponsorships[i].sponsor_code = cookie.sponsorCode
           /\ sponsorships[i].auth_status # "Active" \/ ~sponsorships[i].visible_to_sponsor

\* C8: with no admin secret configured (ADMIN_API_TOKEN unset or empty) the
\* header path and the form path answer false for every candidate token, and
\* the admin submission route never gets past authentication.
C8_AdminAuthFailsClosed ==
    ~(adminEnv.present /\ adminEnv.value # <<>>) =>
        /\ last.op \in {"verifyAdminToken", "verifyFormToken"} => last.res = Bool(FALSE)
        /\ last.op = "adminSubmit" => last.res.status \in {429, 401}
        /\ updates = <<>>

\* C8 witness: no secret configured, a request that offers the empty token in
\* a header or in the form, and the route answered 401.
C8_Witness ==
    /\ ~(adminEnv.present /\ adminEnv.value # <<>>)
    /\ \/ adminReq.xAdminToken = Given(<<>>)
       \/ adminReq.adminPassword = Given(<<>>)
    /\ last.op = "adminSubmit"
    /\ last.res.status = 401

\* C9 as stated: a request that is not rate-limited is authenticated whenever
\* at least one of X-Admin-Token, Authorization: Bearer <token> and the form
\* field adminPassword carries the configured secret, whatever the other two hold.
C9_AnyOneInputSuffices ==
    LET secret == adminEnv.value
        configured == adminEnv.present /\ secret # <<>>
        carried ==
            \/ adminReq.xAdminToken = Given(secret)
            \/ adminReq.authorization = Authorization(TRUE, secret)
            \/ adminReq.adminPassword = Given(secret)
    IN (last.op = "adminSubmit" /\ ~last.arg /\ configured /\ carried) =>
           last.res.status # 401

\* C9 as amended: the request is authenticated whenever the form field carries
\* the secret, or X-Admin-Token carries it, or Authorization: Bearer <token>
\* carries it while X-Admin-Token is absent or empty.
C9_HeaderPriorityThenForm ==
    LET secret == adminEnv.value
        configured == adminEnv.present /\ secret # <<>>
        carried ==
            \/ adminReq.xAdminToken = Given(secret)
            \/ /\ adminReq.authorization = Authorization(TRUE, secret)
               /\ adminReq.xAdminToken \in {Absent, Given(<<>>)}
            \/ adminReq.adminPassword = Given(secret)
    IN (last.op = "adminSubmit" /\ ~last.arg /\ configured /\ carried) =>
           last.res.status # 401

\* C9 witness: only the Authorization: Bearer header carries the secret, the
\* X-Admin-Token header is absent, the form field is wrong, and the route got
\* past authentication.
C9_Witness ==
    /\ last.op = "adminSubmit"
    /\ ~last.arg
    /\ adminEnv.present /\ adminEnv.value # <<>>
    /\ adminReq.authorization = Authorization(TRUE, adminEnv.value)
    /\ adminReq.xAdminToken = Absent
    /\ adminReq.adminPassword.present
    /\ adminReq.adminPassword.value \notin {<<>>, adminEnv.value}
    /\ last.res.status \notin {401, 429}

\* C10: with a secret configured, timingSafeCompare(candidate, secret) and
\* verifyFormToken(candidate) are true if and only if the candidate's bytes
\* equal the secret's, false otherwise, and the header path (X-Admin-Token
\* alone) gives the same answer as the form path on the same candidate.
C10_TokenComparisonIsByteEquality ==
    LET secret == adminEnv.value
        configured == adminEnv.present /\ secret # <<>>
        SameBytes(h) == h.present /\ Utf8(h.value) = Utf8(secret)
    IN configured =>
         /\ last.op = "timingSafeCompare" => last.res = Bool(SameBytes(adminReq.xAdminToken))
         /\ last.op = "verifyFormToken" => last.res = Bool(SameBytes(adminReq.adminPassword))
         /\ (last.op = "verifyAdminToken" /\ ~adminReq.authorization.present) =>
                last.res = Bool(SameBytes(adminReq.xAdminToken))

\* C10 witness: a candidate as long in bytes as the secret but different from
\* it, and timingSafeCompare answered false.
C10_Witness ==
    /\ last.op = "timingSafeCompare"
    /\ adminEnv.present /\ adminEnv.value # <<>>
    /\ Len(Utf8(adminReq.xAdminToken.value)) = Len(Utf8(adminEnv.value))
    /\ adminReq.xAdminToken.value # adminEnv.value
    /\ last.res = Bool(FALSE)

\* C12: in every state reached by createUpdateRequest, submitUpdate, the admin
\* submission route, publishUpdate and rejectUpdate on any ids in any order,
\* every update row is visible to the sponsor if and only if its status is
\* Published.
C12_VisibleIffPublished ==
    \A i \in DOMAIN updates :
        updates[i].visible_to_sponsor <=> updates[i].status = "Published"

\* C12 witness: a row that was published and then rejected (it keeps its
\* publish time and is hidden again) next to a row that is published and visible.
C12_Witness ==
    \E i, j \in DOMAIN updates :
        /\ updates[i].status = "Rejected"
        /\ updates[i].published_at # NoTime
        /\ ~updates[i].visible_to_sponsor
        /\ updates[j].status = "Published"
        /\ updates[j].visible_to_sponsor

\* C13: a row that createUpdateRequest, submitUpdate or the admin submission
\* route has just created is Pending Review, not visible and has no publish
\* time; the sponsor's request is flagged requested-by-sponsor with the request
\* time, the admin submission is flagged not requested by the sponsor.
C13_NewRowsStartPendingAndHidden ==
    LET created ==
            \/ last.op \in {"createUpdateRequest", "submitUpdate"} /\ last.res.tag = "record"
            \/ last.op = "adminSubmit" /\ last.res.status = 200
        row == updates[Len(updates)]
    IN created =>
         /\ Len(updates) > 0
         /\ row.status = "Pending Review"
         /\ row.visible_to_sponsor = FALSE
         /\ row.published_at = NoTime
         /\ last.op = "createUpdateRequest" =>
                /\ row.requested_by_sponsor = TRUE
                /\ row.requested_at = now
                /\ last.res.record.id = Len(updates)
                /\ last.res.record.Status = "Pending Review"
                /\ last.res.record.VisibleToSponsor = FALSE
         /\ last.op = "adminSubmit" => row.requested_by_sponsor = FALSE

\* C13 witness: the admin submission route has just created a row in a table
\* that already holds a row a sponsor requested.
C13_Witness ==
    /\ last.op = "adminSubmit"
    /\ last.res.status = 200
    /\ Len(updates) = 2
    /\ updates[1].requested_by_sponsor
    /\ updates[1].status = "Pending Review"
    /\ ~updates[2].requested_by_sponsor

\* C14: Rejected is terminal: no step changes the status of a Rejected row or
\* makes it visible, and a row's status only ever changes from Pending Review
\* (to Published or to Rejected).
C14_RejectedIsTerminal ==
    [][\A i \in DOMAIN updates :
          /\ updates[i].status = "Rejected" =>
                 /\ updates'[i].status = "Rejected"
                 /\ ~updates'[i].visible_to_sponsor
          /\ updates'[i].status # updates[i].status =>
                 /\ updates[i].status = "Pending Review"
                 /\ updates'[i].status \in {"Published", "Rejected"}]_vars

\* C15: publishUpdate on a row that is already Published is refused or leaves
\* its published_at as it was, and rejectUpdate on a row that is already
\* Rejected is refused or leaves the row as it was; the repeated call never
\* alters the publish time.
C15_ReviewActionsAreIdempotent ==
    [][\A i \in DOMAIN updates :
          /\ (last'.op = "publishUpdate" /\ last'.arg = i /\ updates[i].status = "Published") =>
                 updates'[i].published_at = updates[i].published_at
          /\ (last'.op = "rejectUpdate" /\ last'.arg = i /\ updates[i].status = "Rejected") =>
                 updates'[i] = updates[i]]_vars

\* C16: publishUpdate and rejectUpdate on an id no row has, the store
\* answering, fail with an error that is not the store's error (DatabaseError),
\* and leave the table as it was.
C16_UnknownIdIsNotFound ==
    [][(last'.op \in {"publishUpdate", "rejectUpdate"} /\ last'.arg \notin DOMAIN updates
            /\ last'.outcome = "ok" /\ last' # last) =>
          /\ last'.res.tag = "throw"
          /\ last'.res.error # "DatabaseError"
          /\ updates' = updates]_vars

\* C17: findUpdatesForChild(child) returns exactly the rows of that child that
\* are Published and visible, each once, newest publish time first; rows that
\* are Pending Review (a sponsor's request before it is published) or Rejected,
\* and rows of other children, are not in the result.
C17_ListForChildIsPublishedNewestFirst ==
    (last.op = "findUpdatesForChild" /\ last.res.tag = "rows") =>
        LET rows == last.res.rows
            n == Len(rows)
            expected == {i \in DOMAIN updates : /\ updates[i].child_id = last.arg
                                                /\ updates[i].status = "Published"
                                                /\ updates[i].visible_to_sponsor}
        IN /\ {rows[j].id : j \in 1..n} = expected
           /\ n = Cardinality(expected)
           /\ \A j \in 1..n :
                  /\ rows[j].ChildID = last.arg
                  /\ rows[j].Status = "Published"
                  /\ rows[j].PublishedAt = updates[rows[j].id].published_at
           /\ \A j, k \in 1..n : j < k => rows[j].PublishedAt >= rows[k].PublishedAt
           /\ \A i \in DOMAIN updates :
                  (updates[i].requested_by_sponsor /\ updates[i].status = "Pending Review") =>
                      \A j \in 1..n : rows[j].id # i

\* C17 witness: two published updates of the child, the later row published
\* last, and findUpdatesForChild returned the later row first.
C17_Witness ==
    /\ last.op = "findUpdatesForChild"
    /\ last.res.tag = "rows"
    /\ Len(last.res.rows) = 2
    /\ last.res.rows[1].id = 2
    /\ last.res.rows[1].PublishedAt > last.res.rows[2].PublishedAt
    /\ updates[1].requested_by_sponsor

\* C18: two request-update calls for one sponsorship, started at the same
\* moment with the sponsorship eligible (next_request_eligible_at unset or not
\* in the future) and interleaved in any order at their store calls, end with
\* exactly one granted and one denied, and with one new update row, never two.
C18_ConcurrentRequestsOneSucceeds ==
    LET Eligible(p) ==
            /\ requests[p].record.tag = "record"
            /\ \/ requests[p].record.record.NextRequestEligibleAt = InvalidDate
               \/ requests[p].record.record.NextRequestEligibleAt <= requests[p].startedAt
        finished == \A p \in Calls : /\ requests[p].pc = "done"
                                     /\ requests[p].result.tag \in {"allowed", "denied"}
    IN (/\ finished
        /\ requests["call1"].startedAt = requests["call2"].startedAt
        /\ \E p \in Calls : Eligible(p)) =>
           /\ Cardinality({p \in Calls : requests[p].result.tag = "allowed"}) = 1
           /\ Cardinality({p \in Calls : requests[p].result.tag = "denied"}) = 1
           /\ Cardinality({p \in Calls : requests[p].created # 0}) = 1

C20_RateLimiterRunsFirst ==
    last.op \in {"login", "adminSubmit", "checkout"} =>
        /\ Len(last.calls) >= 1
        /\ last.calls[1] = (CASE last.op = "login" -> "checkLoginRateLimit"
                              [] last.op = "adminSubmit" -> "checkUpdateSubmissionRateLimit"
                              [] last.op = "checkout" -> "checkCheckoutRateLimit")
        /\ last.limit.limited =>
               /\ last.res.status = 429
               /\ last.res.retryAfter >= 0
               /\ last.limit.retryAfter # RetryAfterUndefined =>
                      last.res.retryAfter = last.limit.retryAfter
               /\ Len(last.calls) = 1
               /\ last.op = "login" => last.sponsor = Skipped
        /\ ~last.limit.limited => (last.res.status # 429 /\ Len(last.calls) > 1)

\* C20 witness: an admin submission carrying the right password, made after
\* an earlier one had been let through and had created a row, was rate-limited
\* with a hint of 42 seconds and answered 429 with Retry-After 42.
C20_Witness ==
    /\ last.op = "adminSubmit"
    /\ last.limit = [limited |-> TRUE, retryAfter |-> 42]
    /\ last.res.status = 429
    /\ last.res.retryAfter = 42
    /\ adminReq.adminPassword = adminEnv
    /\ Len(updates) = 1

\* C21: within one request of the login route and of the admin submission
\* route the calls come in the order rate limiter, input validation, auth check
\* (verifySponsor; verifyAdminToken and verifyFormToken), domain operation: no
\* call of a later stage comes before a call of an earlier one, and an auth
\* check is only made after an input validator has been called.
C21_ValidationBeforeAuthCheck ==
    last.op \in {"login", "adminSubmit"} =>
        LET calls == last.calls
            Stage(c) ==
                IF c \in {"checkLoginRateLimit", "checkUpdateSubmissionRateLimit"} THEN 0
                ELSE IF c \in {"request.json", "request.formData", "validateEmail",
                               "validateSponsorCode", "validateUpdateTitle",
                               "validateUpdateContent", "validateRequiredString"} THEN 1
                ELSE IF c \in {"verifySponsor", "verifyAdminToken", "verifyFormToken"} THEN 2
                ELSE 3
            IsValidator(c) == Stage(c) = 1 /\ c \notin {"request.json", "request.formData"}
        IN /\ \A i, j \in 1..Len(calls) : i < j => Stage(calls[i]) <= Stage(calls[j])
           /\ \A i \in 1..Len(calls) :
                Stage(calls[i]) = 2 => \E j \in 1..(i - 1) : IsValidator(calls[j])

\* C22: when the store answers, the login route gives one and the same
\* response, 401 with the generic message, to a well-formed (email, code) pair
\* in each of the three cases: no sponsorship holds the code; a sponsorship
\* holds the code with another email; a sponsorship holds the code and the
\* email but is not Active or not visible to the sponsor.
C22_LoginFailuresAreIndistinguishable ==
    (last.op = "login" /\ last.store = "ok") =>
        LET email == validateEmail(last.arg.email).data
            code == validateSponsorCode(last.arg.sponsorCode).data
            WithCode == {i \in RowIds : sponsorships[i].sponsor_code = code}
            WithBoth == {i \in WithCode : sponsorships[i].sponsor_email = email}
            Usable == {i \in WithBoth : /\ sponsorships[i].auth_status = "Active"
                                        /\ sponsorships[i].visible_to_sponsor}
            NoSuchCode == WithCode = {}
            OtherEmail == WithCode # {} /\ WithBoth = {}
            NotUsable == WithBoth # {} /\ Usable = {}
        IN (NoSuchCode \/ OtherEmail \/ NotUsable) =>
               last.res = Response(401, "Invalid email or sponsor code, or sponsorship is not active")

\* C22 witness: a sponsor who had logged in, and whose sponsorship was then
\* suspended, logs in again with the same credentials and gets the 401 that an
\* unknown code gets.
C22_Witness ==
    /\ last.op = "login"
    /\ last.store = "ok"
    /\ last.arg.email = "a@x.com"
    /\ last.arg.sponsorCode = "BAN-2025-104"
    /\ sponsorships["rec1"].auth_status = "Suspended"
    /\ sponsorships["rec1"].visible_to_sponsor
    /\ cookie = JsonObject("a@x.com", "BAN-2025-104", now + SESSION_DAYS)
    /\ last.res.status = 401

\* C23: a store call that fails is never answered like wrong credentials. The
\* login route answers 500 when its store call fails and answers 401 only when
\* the store answered and no record matched; findSponsorshipByCredentials,
\* verifySession and requireAuth throw DatabaseError when their store call
\* fails, and give null (requireAuth: AuthenticationError) only when no store
\* call was needed or the store answered with zero rows.
C23_StoreFailureIsNotNotFound ==
    LET ZeroRowsByCode(code) ==
            \A i \in RowIds : ~(/\ sponsorships[i].sponsor_code = code
                                /\ sponsorships[i].auth_status = "Active"
                                /\ sponsorships[i].visible_to_sponsor)
        ZeroRowsByCredentials(email, code) ==
            \A i \in RowIds : ~(/\ sponsorships[i].sponsor_email = email
                                /\ sponsorships[i].sponsor_code = code
                                /\ sponsorships[i].auth_status = "Active"
                                /\ sponsorships[i].visible_to_sponsor)
        session == getSession(cookie, now)
    IN /\ last.op = "login" =>
            /\ last.store = "error" => last.res.status = 500
            /\ last.res.status = 401 =>
                 /\ last.store = "ok"
                 /\ ZeroRowsByCredentials(validateEmail(last.arg.email).data,
                                          validateSponsorCode(last.arg.sponsorCode).data)
       /\ last.op = "findSponsorshipByCredentials" =>
            /\ last.arg.outcome = "error" => last.res = Throw("DatabaseError")
            /\ last.res = Null =>
                 /\ last.arg.outcome = "ok"
                 /\ ZeroRowsByCredentials(last.arg.email, last.arg.code)
       /\ last.op \in {"verifySession", "requireAuth"} =>
            /\ (last.arg = "error" /\ session.tag = "session") =>
                 last.res = Throw("DatabaseError")
            /\ last.res \in {Null, Throw("AuthenticationError")} =>
                 \/ session.tag # "session"
                 \/ /\ last.arg = "ok"
                    /\ ZeroRowsByCode(session.session.sponsorCode)

\* C23 witness: a sponsor holding the session the login route issued has the
\* session re-checked while the store is failing, and gets the store error.
C23_Witness ==
    /\ last.op = "verifySession"
    /\ last.arg = "error"
    /\ last.res = Throw("DatabaseError")
    /\ loggedIn
    /\ cookie = JsonObject("a@x.com", "BAN-2025-104", now + SESSION_DAYS)
    /\ sponsorships["rec1"].auth_status = "Active"

\* C24: when the store call of the login route, or one of the two store calls
\* of the admin submission route, fails, the error message in the response is
\* the route's fixed message ('Failed to verify sponsor', 'Failed to submit
\* update'), never the text of the error that was thrown.
C24_StoreFailureMessageIsGeneric ==
    /\ (last.op = "login" /\ last.store = "error") =>
           last.res = Response(500, "Failed to verify sponsor")
    /\ (/\ last.op = "adminSubmit"
        /\ last.res.status = 500
        /\ \E i \in 1..Len(last.calls) :
               last.calls[i] \in {"fetch sponsorships", "fetch updates"}) =>
           last.res = Response(500, "Failed to submit update")

\* C25: in the admin submission route a sponsorship lookup that fails (the
\* store answers with an error status, or cannot be reached) is answered 500,
\* and 404 is answered only when the lookup succeeded.
C25_LookupFailureIsNotNotFound ==
    last.op = "adminSubmit" =>
        /\ last.lookup \in {"http_error", "network_error"} => last.res.status = 500
        /\ last.res.status = 404 => last.lookup = "ok"

\* C26: whatever createSponsorship and assignSponsorToChild calls are made, no
\* two sponsorship records hold the same sponsor code, and no call changes the
\* sponsor code a record holds.
C26_SponsorCodeUniqueAndImmutable ==
    /\ [](\A i, j \in DOMAIN sponsorships :
              i # j => sponsorships[i].sponsor_code # sponsorships[j].sponsor_code)
    /\ [][\A i \in DOMAIN sponsorships :
              sponsorships'[i].sponsor_code = sponsorships[i].sponsor_code]_vars

\* C27: a login request that got past the rate limiter with a body whose
\* email or sponsor code fails validation is answered 400, makes no store
\* query and leaves the cookie as it was; a body that passes both validators
\* is looked up under the validators' normalized values: when the store
\* answers, the login succeeds exactly when a usable sponsorship holds the
\* normalized email and code, and the cookie issued carries them.
C27_MalformedLoginInputNeverReachesStore ==
    [][(last'.op = "login" /\ ~last'.limit.limited /\ last'.arg.kind = "object") =>
          LET emailValidation == validateEmail(last'.arg.email)
              codeValidation == validateSponsorCode(last'.arg.sponsorCode)
          IN /\ (~emailValidation.success \/ ~codeValidation.success) =>
                   /\ last'.res.status = 400
                   /\ last'.sponsor = Skipped
                   /\ last'.store = "none"
                   /\ \A i \in 1..Len(last'.calls) : last'.calls[i] # "verifySponsor"
                   /\ cookie' = cookie
             /\ (emailValidation.success /\ codeValidation.success) =>
                   /\ last'.sponsor # Skipped
                   /\ last'.store = "ok" =>
                        (last'.res.status = 200 <=>
                            \E i \in RowIds :
                                /\ sponsorships[i].sponsor_email = emailValidation.data
                                /\ sponsorships[i].sponsor_code = codeValidation.data
                                /\ sponsorships[i].auth_status = "Active"
                                /\ sponsorships[i].visible_to_sponsor)
                   /\ last'.res.status = 200 =>
                        cookie' = JsonObject(emailValidation.data, codeValidation.data,
                                             now + SESSION_DAYS)]_vars

\* C27 witness: a sponsor holding a session sends a login with a valid email
\* and a malformed sponsor code: 400, no store query, the cookie still there.
C27_Witness ==
    /\ last.op = "login"
    /\ last.arg.email = "a@x.com"
    /\ last.arg.sponsorCode = "BAN 2025;104"
    /\ last.res.status = 400
    /\ last.sponsor = Skipped
    /\ cookie = JsonObject("a@x.com", "BAN-2025-104", now + SESSION_DAYS)

\* C28: in one process, whatever requests call getSupabaseClient and however
\* they interleave at their awaits, getSupabaseClient constructs a client at
\* most once, on the first call that finds the configuration; the stored
\* reference, once set, is never changed; every call of getSupabaseClient that
\* returns, returns the stored client; and all requests in flight hold that
\* one client.
C28_StoreClientIsSingleton ==
    /\ [](/\ supabaseClient.built <= 1
          /\ supabaseClient.ref = NoClient <=> supabaseClient.built = 0
          /\ \A p \in Calls : requests[p].pc = "querying" =>
                 requests[p].result = [tag |-> "client", id |-> supabaseClient.ref])
    /\ [][/\ supabaseClient.ref # NoClient => supabaseClient'.ref = supabaseClient.ref
          /\ (last'.op = "getSupabaseClient" /\ last'.res.tag = "client") =>
                /\ last'.res.id = supabaseClient'.ref
                /\ supabaseClient.ref # NoClient => last'.res.id = supabaseClient.ref
                /\ supabaseClient.ref = NoClient => supabaseClient'.built = 1]_vars

\* C28 witness: the first request constructed the singleton and is awaiting
\* its query; a fresh client was made beside it; a second request, from
\* another function, has just been given the first request's client.
C28_Witness ==
    /\ last.op = "getSupabaseClient"
    /\ last.arg = [call |-> "call2", caller |-> "findSponsorshipByCode"]
    /\ last.res = [tag |-> "client", id |-> 1]
    /\ supabaseClient = [ref |-> 1, made |-> 2, built |-> 1]
    /\ requests["call1"].pc = "querying"
    /\ requests["call2"].result = requests["call1"].result

\* C29: in every state, each update row a sponsor's request created has its
\* throttle record beside it: the sponsorship holding the row's sponsor code
\* has last_request_at at or after the row's requested_at, and
\* next_request_eligible_at a cooldown after last_request_at.
C29_RequestAndTrackingAreAtomic ==
    \A i \in DOMAIN updates :
        updates[i].requested_by_sponsor =>
            \E r \in DOMAIN sponsorships :
                /\ sponsorships[r].sponsor_code = updates[i].sponsor_code
                /\ sponsorships[r].last_request_at # InvalidDate
                /\ sponsorships[r].last_request_at >= updates[i].requested_at
                /\ sponsorships[r].next_request_eligible_at =
                       sponsorships[r].last_request_at + COOLDOWN_DAYS

\* C30: with a browser that holds only what the server gave it, clearSession
\* leaves no session cookie, changes nothing else (neither table; nothing at
\* all when there was no cookie); the cookie then stays absent until a login
\* succeeds; and while it is absent getSession and verifySession return null,
\* requireAuth throws AuthenticationError and verifySessionForCode is false
\* for every code.
C30_ClearSessionEndsTheSession ==
    /\ [][last'.op = "clearSession" =>
             /\ cookie' = NoCookie
             /\ cookie = NoCookie => cookie' = cookie
             /\ UNCHANGED <<sponsorships, updates, now, loggedIn>>]_vars
    /\ [][(cookie = NoCookie /\ cookie' # NoCookie) =>
             (last'.op = "login" /\ last'.res.status = 200)]_vars
    /\ [](cookie = NoCookie =>
             /\ last.op \in {"getSession", "verifySession"} => last.res = Null
             /\ last.op = "requireAuth" => last.res = Throw("AuthenticationError")
             /\ last.op = "verifySessionForCode" => last.res = Bool(FALSE))

\* C30 witness: a sponsor logged in and logged out; the sponsorship is still
\* usable, and requireAuth, called with the store answering, has just refused.
C30_Witness ==
    /\ loggedIn
    /\ cookie = NoCookie
    /\ last.op = "requireAuth"
    /\ last.arg = "ok"
    /\ last.res = Throw("AuthenticationError")
    /\ \A i \in RowIds : /\ sponsorships[i].auth_status = "Active"
                         /\ sponsorships[i].visible_to_sponsor

\* C31: whatever row the store answers with, also one that does not satisfy
\* the query, a credential check returns a sponsorship only if the row is
\* Active and visible to the sponsor: this holds of verifySponsor in the login
\* route and of findSponsorshipByCredentials in the database layer.
C31_ReturnedRowIsRechecked ==
    /\ (last.op = "login" /\ last.sponsor.tag = "record") =>
           \E i \in RowIds :
               /\ sponsorships[i].sponsor_code = last.sponsor.record.sponsorCode
               /\ sponsorships[i].sponsor_email = last.sponsor.record.email
               /\ sponsorships[i].auth_status = "Active"
               /\ sponsorships[i].visible_to_sponsor
    /\ (last.op = "findSponsorshipByCredentials" /\ last.res.tag = "record") =>
           /\ last.res.record.AuthStatus = "Active"
           /\ last.res.record.VisibleToSponsor

\* C32: an admin submission that is rate-limited, or answered 429, 401, 400 or
\* 404, leaves the updates table as it was; a submission changes the table
\* only by appending one row, with answer 200, for a request one of whose
\* token inputs carries the configured secret, and the row is for the child
\* of the sponsorship holding the submitted sponsor code; no submission
\* changes a sponsorship.
C32_AdminSubmitWritesOnlyOnSuccess ==
    [][last'.op = "adminSubmit" =>
          LET secret == adminEnv.value
              carried ==
                  \/ adminReq.xAdminToken = Given(secret)
                  \/ adminReq.authorization.present /\ adminReq.authorization.value = secret
                  \/ adminReq.adminPassword = Given(secret)
          IN /\ (last'.limit.limited \/ last'.res.status \in {429, 401, 400, 404}) =>
                    updates' = updates
             /\ updates' # updates =>
                    /\ last'.res.status = 200
                    /\ Len(updates') = Len(updates) + 1
                    /\ SubSeq(updates', 1, Len(updates)) = updates
                    /\ adminEnv.present /\ secret # <<>> /\ carried
                    /\ updates'[Len(updates')].child_id # ""
                    /\ \E i \in RowIds :
                         /\ sponsorships[i].sponsor_code = updates'[Len(updates')].sponsor_code
                         /\ sponsorships[i].child_id = updates'[Len(updates')].child_id
             /\ sponsorships' = sponsorships]_vars

\* C32 witness: after one submission had created a row for child-1, a
\* submission by the same administrator for a sponsor code whose sponsorship
\* has no child was answered 404, and the table still holds that one row.
C32_Witness ==
    /\ last.op = "adminSubmit"
    /\ last.res.status = 404
    /\ last.lookup = "ok"
    /\ Len(updates) = 1
    /\ updates[1].child_id = "child-1"

\* C33: the login route writes the session cookie exactly when the rate
\* limiter allowed the request, the body passed both validators and
\* verifySponsor returned a sponsorship; the cookie written holds the email and
\* sponsor code of a usable sponsorship, the one verifySponsor returned, and
\* expires 30 days after the request; a login answered 400, 401, 429 or 500
\* leaves the cookie as it was.
C33_CookieOnlyOnVerifiedLogin ==
    [][last'.op = "login" =>
          LET written == \E i \in 1..Len(last'.calls) : last'.calls[i] = "cookieStore.set"
              passed == /\ ~last'.limit.limited
                        /\ last'.arg.kind = "object"
                        /\ validateEmail(last'.arg.email).success
                        /\ validateSponsorCode(last'.arg.sponsorCode).success
                        /\ last'.sponsor.tag = "record"
          IN /\ written <=> passed
             /\ written <=> last'.res.status = 200
             /\ written =>
                  /\ cookie' = JsonObject(last'.sponsor.record.email,
                                          last'.sponsor.record.sponsorCode,
                                          now + SESSION_DAYS)
                  /\ \E i \in RowIds :
                       /\ sponsorships[i].sponsor_email = cookie'.email
                       /\ sponsorships[i].sponsor_code = cookie'.sponsorCode
                       /\ sponsorships[i].auth_status = "Active"
                       /\ sponsorships[i].visible_to_sponsor
             /\ ~written =>
                  /\ last'.res.status \in {400, 401, 429, 500}
                  /\ cookie' = cookie]_vars

\* C33 witness: while the first sponsorship is suspended, the sponsor of the
\* second logs in and is given a cookie with that sponsorship's email and
\* code, good for 30 days.
C33_Witness ==
    /\ last.op = "login"
    /\ last.arg.email = "b@x.com"
    /\ last.arg.sponsorCode = "BAN-2025-999"
    /\ last.res.status = 200
    /\ cookie = JsonObject("b@x.com", "BAN-2025-999", now + SESSION_DAYS)
    /\ sponsorships["rec1"].auth_status = "Suspended"

\* C34: whatever happened before (logins, earlier refusals, deactivations),
\* verifySession with the store answering returns a sponsorship exactly when
\* the cookie now held is a session that has not expired and a sponsorship
\* holding its sponsor code is now Active and visible, and the sponsorship
\* returned is such a one: a cookie that was refused earlier is accepted
\* again under the same condition.
C34_SessionValidityIsHistoryFree ==
    (last.op = "verifySession" /\ last.arg = "ok") =>
        LET unexpired == /\ cookie.kind = "object"
                         /\ ~(cookie.expires # InvalidDate /\ cookie.expires < now)
            Usable == {i \in RowIds : /\ sponsorships[i].sponsor_code = cookie.sponsorCode
                                      /\ sponsorships[i].auth_status = "Active"
                                      /\ sponsorships[i].visible_to_sponsor}
        IN /\ last.res.tag = "record" <=> (unexpired /\ Usable # {})
           /\ last.res.tag = "record" => last.res.record.id \in Usable
           /\ last.res.tag # "record" => last.res = Null
           /\ (cookie \in refused /\ unexpired /\ Usable # {}) => last.res.tag = "record"

\* C34 witness: the cookie the sponsor holds was refused earlier, while the
\* sponsorship was deactivated or hidden; the sponsorship is usable again, and
\* verifySession has just accepted that same cookie.
C34_Witness ==
    /\ last.op = "verifySession"
    /\ last.arg = "ok"
    /\ last.res.tag = "record"
    /\ cookie \in refused
    /\ loggedIn

\* C35: in every state reached by createUpdateRequest, submitUpdate,
\* publishUpdate and rejectUpdate, every update whose status
\* is Published has a publish time, and an update has no publish time unless a
\* publishUpdate call has targeted it: a row is never created with a publish
\* time, and the only step that gives a row one is publishUpdate on that row.
C35_PublishTimeOnlyFromPublish ==
    /\ [](\A i \in DOMAIN updates :
             updates[i].status = "Published" => updates[i].published_at # NoTime)
    /\ [][\A i \in DOMAIN updates' :
             (/\ updates'[i].published_at # NoTime
              /\ (i \in DOMAIN updates => updates[i].published_at = NoTime)) =>
                 (last'.op = "publishUpdate" /\ last'.arg = i)]_vars

\* C35 witness: publishUpdate has just stamped one row, which is Published, next
\* to a row no publishUpdate has touched, which has no publish time.
C35_Witness ==
    /\ last.op = "publishUpdate"
    /\ last.res.tag = "record"
    /\ \E i, j \in DOMAIN updates :
        /\ i = last.arg
        /\ updates[i].status = "Published"
        /\ updates[i].published_at # NoTime
        /\ j # i
        /\ updates[j].status = "Pending Review"
        /\ updates[j].published_at = NoTime

\* C36: a publishUpdate(id) or rejectUpdate(id) step adds and removes no update
\* row, leaves every row other than row id as it was, and leaves every field
\* of row id other than status, visibility and publish time as it was (child
\* id, sponsor code, update type, title, content, requested-by-sponsor flag,
\* request time, submitter and submission time); a rejectUpdate step also
\* leaves the publish time as it was; neither changes a sponsorship row.
C36_ReviewActionsTouchOnlyReviewFields ==
    [][last'.op \in {"publishUpdate", "rejectUpdate"} =>
          /\ Len(updates') = Len(updates)
          /\ \A i \in DOMAIN updates :
                IF i # last'.arg THEN updates'[i] = updates[i]
                ELSE updates'[i] =
                       [updates[i] EXCEPT
                          !.status = updates'[i].status,
                          !.visible_to_sponsor = updates'[i].visible_to_sponsor,
                          !.published_at = IF last'.op = "rejectUpdate"
                                           THEN updates[i].published_at
                                           ELSE updates'[i].published_at]
          /\ sponsorships' = sponsorships]_vars

\* C36 witness: rejectUpdate has just rejected a row that had been published
\* (the row still carries its publish time), with another row in the table
\* that is still Pending Review.
C36_Witness ==
    /\ last.op = "rejectUpdate"
    /\ last.res.tag = "record"
    /\ last.res.record.Status = "Rejected"
    /\ last.res.record.PublishedAt # NoTime
    /\ \E j \in DOMAIN updates :
          j # last.arg /\ updates[j].status = "Pending Review"

\* C37: in every state reached by the lifecycle operations, when the store
\* answers, findMostRecentUpdateForChild(child) (rows of the child that are
\* Published) agrees with every list findUpdatesForChild(child) (rows that are
\* Published and visible) can return in that state: it returns null exactly
\* when the list is empty, and otherwise a row of the list whose publish time
\* no row of the list exceeds.
C37_MostRecentAgreesWithList ==
    (last.op = "findMostRecentUpdateForChild" /\ last.res.tag # "throw") =>
        \A list \in findUpdatesForChild(updates, last.arg, "ok") :
            LET rows == list.rows
            IN /\ last.res = Null <=> Len(rows) = 0
               /\ last.res.tag = "record" =>
                    /\ \E j \in 1..Len(rows) : rows[j] = last.res.record
                    /\ \A j \in 1..Len(rows) :
                          rows[j].PublishedAt <= last.res.record.PublishedAt

\* C37 witness: the child has two published updates with different publish
\* times and a findMostRecentUpdateForChild call returned the later one, the
\* earlier one being the row inserted last.
C37_Witness ==
    /\ last.op = "findMostRecentUpdateForChild"
    /\ last.res.tag = "record"
    /\ last.res.record.id = 1
    /\ \E j \in DOMAIN updates :
          /\ j # 1
          /\ updates[j].child_id = last.arg
          /\ updates[j].status = "Published"
          /\ updates[j].published_at # NoTime
          /\ updates[j].published_at < last.res.record.PublishedAt

====
